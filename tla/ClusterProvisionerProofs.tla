------------------------ MODULE ClusterProvisionerProofs ------------------------
(***************************************************************************)
(* Proofs about ClusterProvisioner, for all clusters, servers, ranges and  *)
(* bounds.  One inductive invariant, Inv, carries all of the module's      *)
(* safety properties.                                                      *)
(***************************************************************************)
EXTENDS ClusterProvisioner, WellFoundedInduction, TLAPS

(* A row of mysql_servers is where c's provisioning puts it.               *)
Owns(c, row) ==
  \/ row = <<metadata[c].writer, Hosts[c].primary>>
  \/ \E h \in Hosts[c].replicas : row = <<Reader(metadata[c].writer), h>>

(* No two rows record the same port or the same writer hostgroup.          *)
UniqueAllocation ==
  \A c, d \in Allocated : c # d =>
    /\ metadata[c].port # metadata[d].port
    /\ metadata[c].writer # metadata[d].writer

(* Port and hostgroup are recorded together.                               *)
RowsWhole == \A c \in Known : metadata[c].writer = None <=> metadata[c].port = None

(* Each row of ProxySQL's tables belongs to an allocation of the database. *)
Owned ==
  /\ \A row \in servers : \E c \in Allocated : Owns(c, row)
  /\ pairs \subseteq {metadata[c].writer : c \in Allocated}

(* The command holds what its cluster's row records.                       *)
Recorded ==
  /\ alloc # None
  /\ metadata[target].port = alloc.port
  /\ metadata[target].writer = alloc.writer

(* No other cluster holds what the command has chosen.                     *)
Fresh ==
  \A c \in Known \ {target} :
    metadata[c].port # alloc.port /\ metadata[c].writer # alloc.writer

Absent(h) == \A row \in servers : row[2] # h

(* What the statement reached says about the command.                      *)
AtStatement ==
  /\ pc # "idle" => target \in Known
  /\ pc \in {"allocate", "pairOut", "pairIn", "primaryIn", "replicasIn", "failing"}
       => op = "provision"
  /\ pc \in {"serversOut", "pairRemoved"} => op = "deprovision"
  /\ pc = "allocate" => alloc = None /\ metadata[target].writer = None
  /\ pc \in {"pairOut", "pairIn", "primaryIn", "replicasIn", "load", "save",
             "finish", "serversOut", "pairRemoved"} => Recorded
  /\ pc = "failing" =>
       /\ alloc = None => metadata[target].writer = None
       /\ alloc # None => Fresh /\ (metadata[target].writer = None \/ Recorded)
       /\ clean => alloc = None

(* A provisioning finds none of its cluster's servers in mysql_servers.    *)
NothingLeft ==
  /\ pc \in {"allocate", "pairOut", "pairIn", "primaryIn", "replicasIn"} =>
       todo \subseteq Hosts[target].replicas
  /\ pc \in {"pairOut", "pairIn", "primaryIn"} => Absent(Hosts[target].primary)
  /\ pc \in {"pairOut", "pairIn", "primaryIn", "replicasIn"} =>
       \A h \in todo : Absent(h)

(* Before its row goes, a deprovisioned cluster has left ProxySQL.         *)
Emptied ==
  op = "deprovision" =>
    /\ pc \in {"pairRemoved", "load", "save", "finish"} =>
         \A row \in servers : row[1] \notin Block(alloc.writer)
    /\ pc \in {"load", "save", "finish"} => alloc.writer \notin pairs

(* While nothing has failed, what is loaded and saved keeps up.            *)
KeptUp ==
  faults = 0 =>
    /\ ClaimedBy(runtime) /\ ClaimedBy(disk)
    /\ pc \in {"save", "finish"} => runtime = Config
    /\ pc = "finish" => disk = Config
    /\ op = "provision" /\ pc \in {"load", "save", "finish"} => alloc.port \in listening

Inv ==
  /\ TypeOK /\ RowsWhole /\ UniqueAllocation
  /\ Owned /\ AtStatement /\ NothingLeft /\ Emptied
  /\ KeptUp /\ ReadyClustersListen

-------------------------------------------------------------------------------
(* A set of numbers that is not empty has the least member Allocate takes. *)
LEMMA LeastIsMember ==
  ASSUME NEW S, S \subseteq Nat, S # {} PROVE Least(S) \in S
<1>1. IsWellFoundedOn(OpToRel(<, Nat), Nat)
  BY NatLessThanWellFounded
<1>2. PICK n \in S : \A i \in S : ~(<<i, n>> \in OpToRel(<, Nat))
  BY <1>1, WFMin
<1>3. \A i \in S : <<i, n>> \in OpToRel(<, Nat) <=> i < n
  BY DEF OpToRel
<1>4. \A i \in S : ~(i < n)
  BY <1>2, <1>3, Zenon
<1>5. n \in Nat /\ \A i \in S : i \in Nat
  OBVIOUS
<1>6. \A i \in S : n <= i
  BY <1>4, <1>5
<1> QED
  BY <1>6 DEF Least

(* What a provisioning takes is in range, and no row holds it.             *)
LEMMA ChoiceIsFree ==
  ASSUME ~Exhausted
  PROVE  /\ Least(FreePorts) \in (PortStart..PortEnd) \ UsedPorts
         /\ Least(FreeWriters) \in (HostgroupStart..HostgroupEnd) \ UsedWriters
<1>1. FreePorts \subseteq Nat /\ FreePorts # {}
  BY ProvisionerAssumption DEF FreePorts, Exhausted
<1>2. FreeWriters \subseteq Nat /\ FreeWriters # {}
  BY ProvisionerAssumption DEF FreeWriters, Exhausted
<1>3. Least(FreePorts) \in FreePorts /\ Least(FreeWriters) \in FreeWriters
  BY <1>1, <1>2, LeastIsMember
<1> QED
  BY <1>3 DEF FreePorts, FreeWriters

(* NULL is none of the values it is compared with.                         *)
LEMMA NoneIsOther ==
  /\ None \notin Nat /\ None \notin Cluster /\ None \notin Row
  /\ None \notin [port : PortStart..PortEnd, writer : HostgroupStart..HostgroupEnd]
<1>1. Row \subseteq [status : {"provisioning", "ready", "failed"},
                     port : Nat \cup {None}, writer : Nat \cup {None}]
  BY ProvisionerAssumption DEF Row
<1>2. [port : PortStart..PortEnd, writer : HostgroupStart..HostgroupEnd]
        \subseteq [port : Nat, writer : Nat]
  BY ProvisionerAssumption
<1> QED
  BY <1>1, <1>2, ProvisionerAssumption

LEMMA InvInitially == Init => Inv
<1> SUFFICES ASSUME Init PROVE Inv
  OBVIOUS
<1> USE DEF Init
<1>1. Known = {} /\ Allocated = {}
  BY DEF Known, Allocated
<1>2. TypeOK
  BY ProvisionerAssumption DEF TypeOK, Config
<1> QED
  BY <1>1, <1>2 DEF Inv, RowsWhole, UniqueAllocation, Owned, AtStatement, NothingLeft,
     Emptied, KeptUp, ClaimedBy, ReadyClustersListen, Config

-------------------------------------------------------------------------------
(* Where a command stands, and what it holds.                              *)
LEMMA Standing ==
  ASSUME Inv PROVE
  /\ \A c \in Known : c \in Cluster /\ metadata[c] \in Row
  /\ pc # "idle" => target \in Known
  /\ Recorded /\ pc # "idle" => target \in Allocated
  /\ alloc # None => /\ alloc.port \in PortStart..PortEnd
                     /\ alloc.writer \in HostgroupStart..HostgroupEnd
                     /\ alloc.writer \in Hostgroups /\ Reader(alloc.writer) \in Hostgroups
<1>1. \A c \in Known : c \in Cluster /\ metadata[c] \in Row
  BY DEF Inv, TypeOK, Known
<1>2. pc # "idle" => target \in Known
  BY DEF Inv, AtStatement
<1>3. alloc # None => /\ alloc.port \in PortStart..PortEnd
                      /\ alloc.writer \in HostgroupStart..HostgroupEnd
  BY DEF Inv, TypeOK
<1>4. Recorded /\ pc # "idle" => target \in Allocated
  BY <1>2, <1>3, ProvisionerAssumption DEF Recorded, Allocated
<1>5. alloc # None => alloc.writer \in Hostgroups /\ Reader(alloc.writer) \in Hostgroups
  BY <1>3, ProvisionerAssumption DEF Hostgroups, Reader
<1> QED
  BY <1>1, <1>2, <1>3, <1>4, <1>5

LEMMA TypeIsKept == Inv /\ [Next]_vars => TypeOK'
<1> SUFFICES ASSUME Inv, [Next]_vars PROVE TypeOK'
  OBVIOUS
<1>t. TypeOK
  BY DEF Inv
<1>f. MayFail => faults' \in 0..MaxFaults
  BY <1>t, ProvisionerAssumption DEF MayFail, TypeOK
<1> USE DEF Goto, NoFault, proxysql, command
<1>1. ASSUME NEW c \in Cluster, Provision(c) PROVE TypeOK'
  <2>1. Hosts[c].replicas \subseteq Host
    BY ProvisionerAssumption
  <2>2. metadata' \in [Cluster -> Row \cup {None}]
    BY <1>t, <1>1 DEF Provision, TypeOK, Row
  <2> QED
    BY <1>t, <1>1, <2>1, <2>2 DEF Provision, TypeOK
<1>2. ASSUME NEW c \in Cluster, Deprovision(c) PROVE TypeOK'
  <2>1. c \in Known /\ metadata[c] \in Row /\ metadata[c].writer # None
    BY <1>2, Standing DEF Deprovision, Allocated
  <2>2. metadata[c].port # None
    BY <2>1 DEF Inv, RowsWhole
  <2> QED
    BY <1>t, <1>2, <2>1, <2>2 DEF Deprovision, TypeOK, Row
<1>3. CASE Allocate
  <2>1. target \in Cluster /\ metadata[target] \in Row
    BY <1>3, Standing DEF Allocate
  <2>2. Least(FreePorts) \in PortStart..PortEnd
        /\ Least(FreeWriters) \in HostgroupStart..HostgroupEnd
    BY <1>3, ChoiceIsFree DEF Allocate
  <2>3. metadata' \in [Cluster -> Row \cup {None}]
    BY <1>t, <1>3, <2>1, <2>2 DEF Allocate, Record, TypeOK, Row
  <2>4. alloc' = [port |-> Least(FreePorts), writer |-> Least(FreeWriters)]
    BY <1>3 DEF Allocate, Record
  <2>5. alloc' \in [port : PortStart..PortEnd, writer : HostgroupStart..HostgroupEnd]
    BY <2>2, <2>4
  <2>6. faults' \in 0..MaxFaults /\ clean' \in BOOLEAN /\ pc' \in {"pairOut", "failing"}
    BY <1>t, <1>f, <1>3 DEF Allocate, Record, TypeOK
  <2>7. UNCHANGED <<servers, pairs, runtime, disk, listening, op, target, todo>>
    BY <1>3 DEF Allocate
  <2> QED
    BY <1>t, <2>3, <2>5, <2>6, <2>7 DEF TypeOK
<1>4. CASE AllocationFails \/ StatementFails \/ Crash
  BY <1>t, <1>f, <1>4 DEF AllocationFails, StatementFails, Crash, TypeOK
<1>5. CASE PairOut \/ PairIn
  <2>1. alloc # None
    BY <1>5 DEF PairOut, PairIn, Inv, AtStatement, Recorded
  <2> QED
    BY <1>t, <1>5, <2>1, Standing DEF PairOut, PairIn, TypeOK
<1>6. CASE PrimaryIn \/ \E h \in Host : ReplicaIn(h)
  <2>1. alloc # None /\ target \in Cluster
    BY <1>6, Standing DEF PrimaryIn, ReplicaIn, InsertServer, Inv, AtStatement, Recorded
  <2>2. Hosts[target].primary \in Host
    BY <2>1, ProvisionerAssumption
  <2>3. servers' \subseteq Hostgroups \X Host
    <3>1. \E g \in Hostgroups, h \in Host : servers' = servers \cup {<<g, h>>}
      BY <1>6, <2>1, <2>2, Standing DEF PrimaryIn, ReplicaIn, InsertServer
    <3> QED
      BY <1>t, <3>1 DEF TypeOK
  <2> QED
    BY <1>t, <1>6, <2>3 DEF PrimaryIn, ReplicaIn, InsertServer, TypeOK
<1>10. CASE Listen
  <2>1. alloc # None
    BY <1>10 DEF Listen, Inv, AtStatement, Recorded
  <2>2. listening' \subseteq (PortStart..PortEnd) \cup {MySQLPort}
    BY <1>t, <1>10, <2>1, Standing DEF Listen, TypeOK
  <2> QED
    BY <1>t, <1>f, <1>10, <2>2 DEF Listen, TypeOK
<1>11. CASE Ready \/ MetadataOut
  <2>1. target \in Cluster /\ metadata[target] \in Row
    BY <1>11, Standing DEF Ready, MetadataOut
  <2>2. metadata' \in [Cluster -> Row \cup {None}]
    BY <1>t, <1>11, <2>1 DEF Ready, MetadataOut, TypeOK, Row
  <2> QED
    BY <1>t, <1>11, <2>2 DEF Ready, MetadataOut, TypeOK
<1>12. CASE Failing
  <2>1. metadata' \in [Cluster -> Row \cup {None}]
    <3> DEFINE row == [status |-> "failed",
                       port   |-> IF alloc = None THEN None ELSE alloc.port,
                       writer |-> IF alloc = None THEN None ELSE alloc.writer]
    <3>1. row \in Row
      BY Standing DEF Row
    <3>2. metadata' = metadata \/ metadata' = [metadata EXCEPT ![target] = row]
      BY <1>12 DEF Failing
    <3> HIDE DEF row
    <3> QED
      BY <1>t, <3>1, <3>2 DEF TypeOK
  <2> QED
    BY <1>t, <1>f, <1>12, <2>1 DEF Failing, TypeOK
<1>7. CASE Load \/ Save
  <2>1. runtime' \in {runtime, <<servers, pairs>>} /\ disk' \in {disk, <<servers, pairs>>}
    BY <1>7 DEF Load, Save, Config
  <2>2. UNCHANGED <<metadata, servers, pairs, listening, op, target, alloc, todo>>
    BY <1>7 DEF Load, Save
  <2>3. faults' \in 0..MaxFaults /\ clean' \in BOOLEAN /\ pc' \in {"save", "finish"}
    BY <1>t, <1>f, <1>7 DEF Load, Save, TypeOK
  <2> QED
    BY <1>t, <2>1, <2>2, <2>3 DEF TypeOK
<1>8. CASE ServersOut \/ PairRemoved
  BY <1>t, <1>8 DEF ServersOut, PairRemoved, TypeOK
<1>9. CASE UNCHANGED vars
  BY <1>t, <1>9 DEF vars, TypeOK
<1> QED
  BY <1>1, <1>2, <1>3, <1>4, <1>5, <1>6, <1>7, <1>8, <1>9, <1>10, <1>11, <1>12
     DEF Next, Statement

-------------------------------------------------------------------------------
(* The five statements that write cluster_metadata, each by what it makes  *)
(* of the rows.                                                            *)
Elsewhere(c) == \A d \in Cluster \ {c} : metadata'[d] = metadata[d]

LEMMA RowsWritten ==
  ASSUME Inv, [Next]_vars PROVE
  \/ UNCHANGED metadata
  \/ \E c \in Cluster :
       /\ Provision(c) /\ metadata[c] = None /\ Elsewhere(c)
       /\ metadata'[c] = [status |-> "provisioning", port |-> None, writer |-> None]
  \/ /\ Allocate /\ target \in Known /\ Elsewhere(target)
     /\ metadata'[target] = [status |-> metadata[target].status,
          port |-> Least(FreePorts), writer |-> Least(FreeWriters)]
     /\ alloc' = [port |-> Least(FreePorts), writer |-> Least(FreeWriters)]
     /\ pc' = "pairOut"
  \/ /\ Ready /\ target \in Known /\ Elsewhere(target)
     /\ metadata'[target] = [status |-> "ready", port |-> alloc.port, writer |-> alloc.writer]
  \/ /\ Failing /\ target \in Known /\ Elsewhere(target)
     /\ metadata'[target] = [status |-> "failed",
          port |-> IF alloc = None THEN None ELSE alloc.port,
          writer |-> IF alloc = None THEN None ELSE alloc.writer]
  \/ MetadataOut /\ target \in Known /\ Elsewhere(target) /\ metadata'[target] = None
<1>t. metadata \in [Cluster -> Row \cup {None}] /\ metadata' \in [Cluster -> Row \cup {None}]
  BY TypeIsKept DEF Inv, TypeOK
<1> USE DEF Elsewhere
<1>1. ASSUME NEW c \in Cluster, Provision(c)
      PROVE  /\ metadata[c] = None /\ Elsewhere(c)
             /\ metadata'[c] = [status |-> "provisioning", port |-> None, writer |-> None]
  BY <1>1, <1>t DEF Provision
<1>2. CASE Allocate
  <2>1. target \in Known /\ target \in Cluster /\ metadata[target] \in Row
    BY <1>2, Standing DEF Allocate
  <2>2. CASE Record(Least(FreePorts), Least(FreeWriters))
    BY <1>t, <1>2, <2>1, <2>2 DEF Record, Row, Goto
  <2>3. CASE UNCHANGED metadata
    BY <2>3
  <2> QED
    BY <1>2, <2>2, <2>3 DEF Allocate
<1>3. CASE Ready
  <2>1. target \in Known /\ target \in Cluster /\ metadata[target] \in Row
    BY <1>3, Standing DEF Ready
  <2>2. metadata[target].port = alloc.port /\ metadata[target].writer = alloc.writer
    BY <1>3 DEF Ready, Inv, AtStatement, Recorded
  <2> QED
    BY <1>t, <1>3, <2>1, <2>2 DEF Ready, Row
<1>4. CASE Failing
  <2>1. target \in Known /\ target \in Cluster
    BY <1>4, Standing DEF Failing
  <2> QED
    BY <1>t, <1>4, <2>1 DEF Failing
<1>5. CASE MetadataOut
  <2>1. target \in Known /\ target \in Cluster
    BY <1>5, Standing DEF MetadataOut
  <2> QED
    BY <1>t, <1>5, <2>1 DEF MetadataOut
<1>6. CASE PairOut \/ PairIn \/ PrimaryIn \/ (\E h \in Host : ReplicaIn(h)) \/ Listen
           \/ Load \/ Save \/ ServersOut \/ PairRemoved
           \/ (\E c \in Cluster : Deprovision(c))
  BY <1>6 DEF PairOut, PairIn, PrimaryIn, ReplicaIn, InsertServer, Listen, Load, Save,
     ServersOut, PairRemoved, Deprovision
<1>7. CASE AllocationFails \/ StatementFails \/ Crash \/ UNCHANGED vars
  BY <1>7 DEF AllocationFails, StatementFails, Crash, vars
<1> QED
  BY <1>1, <1>2, <1>3, <1>4, <1>5, <1>6, <1>7 DEF Next, Statement

LEMMA AllocationsAreKept == Inv /\ [Next]_vars => (RowsWhole /\ UniqueAllocation)'
<1> SUFFICES ASSUME Inv, [Next]_vars PROVE (RowsWhole /\ UniqueAllocation)'
  OBVIOUS
<1>t. RowsWhole /\ UniqueAllocation
  BY DEF Inv
<1>k. \A c \in Known : c \in Cluster /\ metadata[c] \in Row
  BY Standing
<1> USE DEF RowsWhole, UniqueAllocation, Allocated, Known
<1>1. CASE UNCHANGED metadata
  BY <1>t, <1>1
<1>2. ASSUME NEW c \in Cluster, Provision(c), metadata[c] = None, Elsewhere(c),
             metadata'[c] = [status |-> "provisioning", port |-> None, writer |-> None]
      PROVE (RowsWhole /\ UniqueAllocation)'
  BY <1>t, <1>2 DEF Elsewhere
<1>3. ASSUME Allocate, target \in Known, Elsewhere(target),
             metadata'[target] = [status |-> metadata[target].status,
               port |-> Least(FreePorts), writer |-> Least(FreeWriters)]
      PROVE (RowsWhole /\ UniqueAllocation)'
  <2>1. \A c \in Known : /\ metadata[c].port # Least(FreePorts)
                         /\ metadata[c].writer # Least(FreeWriters)
    BY <1>3, ChoiceIsFree DEF Allocate, UsedPorts, UsedWriters
  <2>2. Least(FreePorts) # None /\ Least(FreeWriters) # None
    BY <1>3, ChoiceIsFree, ProvisionerAssumption DEF Allocate
  <2> QED
    BY <1>t, <1>3, <2>1, <2>2 DEF Elsewhere
<1>4. ASSUME Ready, target \in Known, Elsewhere(target),
             metadata'[target] = [status |-> "ready", port |-> alloc.port,
                                  writer |-> alloc.writer]
      PROVE (RowsWhole /\ UniqueAllocation)'
  <2>1. metadata[target].port = alloc.port /\ metadata[target].writer = alloc.writer
    BY <1>4 DEF Ready, Inv, AtStatement, Recorded
  <2> QED
    BY <1>t, <1>4, <2>1 DEF Elsewhere
<1>5. ASSUME Failing, target \in Known, Elsewhere(target),
             metadata'[target] = [status |-> "failed",
               port |-> IF alloc = None THEN None ELSE alloc.port,
               writer |-> IF alloc = None THEN None ELSE alloc.writer]
      PROVE (RowsWhole /\ UniqueAllocation)'
  <2>1. alloc # None => Fresh
    BY <1>5 DEF Failing, Inv, AtStatement
  <2>2. alloc # None => alloc.port # None /\ alloc.writer # None
    BY Standing, ProvisionerAssumption
  <2> QED
    BY <1>t, <1>5, <2>1, <2>2 DEF Elsewhere, Fresh
<1>6. ASSUME MetadataOut, target \in Known, Elsewhere(target), metadata'[target] = None
      PROVE (RowsWhole /\ UniqueAllocation)'
  BY <1>t, <1>6 DEF Elsewhere
<1> QED
  BY <1>1, <1>2, <1>3, <1>4, <1>5, <1>6, RowsWritten

-------------------------------------------------------------------------------
(* Only the last statement of a deprovisioning gives an allocation up.     *)
ClaimsStay == \A c \in Allocated : c \in Allocated' /\ metadata'[c].writer = metadata[c].writer

LEMMA ClaimsStayOrGo == ASSUME Inv, [Next]_vars PROVE ClaimsStay \/ MetadataOut
<1> USE DEF ClaimsStay, Allocated, Known, Elsewhere
<1>1. CASE UNCHANGED metadata
  BY <1>1
<1>2. ASSUME NEW c \in Cluster, metadata[c] = None, Elsewhere(c) PROVE ClaimsStay
  BY <1>2
<1>3. ASSUME Allocate, Elsewhere(target) PROVE ClaimsStay
  <2>1. metadata[target].writer = None
    BY <1>3 DEF Allocate, Inv, AtStatement
  <2> QED
    BY <1>3, <2>1
<1>4. ASSUME Ready, Elsewhere(target),
             metadata'[target] = [status |-> "ready", port |-> alloc.port,
                                  writer |-> alloc.writer]
      PROVE ClaimsStay
  <2>1. metadata[target].writer = alloc.writer
    BY <1>4 DEF Ready, Inv, AtStatement, Recorded
  <2>2. metadata'[target] # None
    BY <1>4, NoneIsOther, Standing DEF Ready, Inv, AtStatement, Recorded, Row
  <2> QED
    BY <1>4, <2>1, <2>2
<1>5. ASSUME Failing, target \in Known, Elsewhere(target),
             metadata'[target] = [status |-> "failed",
               port |-> IF alloc = None THEN None ELSE alloc.port,
               writer |-> IF alloc = None THEN None ELSE alloc.writer]
      PROVE ClaimsStay
  <2>1. /\ alloc = None => metadata[target].writer = None
        /\ alloc # None => metadata[target].writer \in {None, alloc.writer}
    BY <1>5 DEF Failing, Inv, AtStatement, Recorded
  <2>2. metadata'[target] # None
    <3>1. metadata'[target] \in Row
      BY <1>5, Standing DEF Row
    <3> QED
      BY <3>1, NoneIsOther
  <2> QED
    BY <1>5, <2>1, <2>2
<1> QED
  BY <1>1, <1>2, <1>3, <1>4, <1>5, RowsWritten

LEMMA OwnedIsKept == Inv /\ [Next]_vars => Owned'
<1> SUFFICES ASSUME Inv, [Next]_vars PROVE Owned'
  OBVIOUS
<1>o. Owned
  BY DEF Inv
<1>1. ASSUME ClaimsStay,
             \A row \in servers' \ servers : target \in Allocated /\ Owns(target, row),
             pairs' \subseteq pairs \cup {metadata[c].writer : c \in Allocated}
      PROVE  Owned'
  <2>1. \A row \in servers' : \E c \in Allocated : Owns(c, row)
    BY <1>o, <1>1 DEF Owned
  <2>2. \A c \in Allocated, row \in servers' :
          Owns(c, row) => c \in Allocated' /\ Owns(c, row)'
    BY <1>1 DEF ClaimsStay, Owns
  <2>3. \A w \in pairs' : \E c \in Allocated : w = metadata[c].writer
    BY <1>o, <1>1 DEF Owned
  <2>4. \A w \in pairs' : \E c \in Allocated' : w = metadata'[c].writer
    BY <1>1, <2>3 DEF ClaimsStay
  <2> QED
    BY <2>1, <2>2, <2>4 DEF Owned
<1>2. CASE MetadataOut
  <2>1. /\ alloc.writer = metadata[target].writer
        /\ \A row \in servers : row[1] \notin Block(alloc.writer)
        /\ alloc.writer \notin pairs
    BY <1>2 DEF MetadataOut, Inv, AtStatement, Recorded, Emptied
  <2>2. Elsewhere(target) /\ UNCHANGED <<servers, pairs>>
    <3>1. metadata \in [Cluster -> Row \cup {None}]
      BY DEF Inv, TypeOK
    <3> QED
      BY <1>2, <3>1 DEF MetadataOut, proxysql, Elsewhere
  <2>3. \A c \in Allocated \ {target} : c \in Allocated' /\ metadata'[c] = metadata[c]
    BY <2>2 DEF Elsewhere, Allocated, Known
  <2>4. \A row \in servers : ~Owns(target, row)
    BY <2>1 DEF Owns, Block
  <2>5. \A row \in servers' : \E c \in Allocated' : Owns(c, row)'
    BY <1>o, <2>2, <2>3, <2>4 DEF Owned, Owns
  <2>6. pairs' \subseteq {metadata'[c].writer : c \in Allocated'}
    BY <1>o, <2>1, <2>2, <2>3 DEF Owned
  <2> QED
    BY <2>5, <2>6 DEF Owned
<1>3. CASE UNCHANGED <<servers, pairs>> /\ ClaimsStay
  BY <1>1, <1>3
<1>4. CASE ServersOut \/ PairRemoved \/ PairOut
  BY <1>1, <1>4, ClaimsStayOrGo DEF ServersOut, PairRemoved, PairOut, MetadataOut
<1>5. CASE PairIn
  <2>1. target \in Allocated /\ alloc.writer = metadata[target].writer
    BY <1>5, Standing DEF PairIn, Inv, AtStatement, Recorded
  <2> QED
    BY <1>1, <1>5, <2>1, ClaimsStayOrGo DEF PairIn, MetadataOut
<1>6. CASE PrimaryIn \/ \E h \in Host : ReplicaIn(h)
  <2>1. target \in Allocated /\ alloc.writer = metadata[target].writer
    BY <1>6, Standing DEF PrimaryIn, ReplicaIn, Inv, AtStatement, Recorded
  <2>2. PICK row : servers' = servers \cup {row} /\ Owns(target, row)
    <3>1. pc = "replicasIn" => todo \subseteq Hosts[target].replicas
      BY DEF Inv, NothingLeft
    <3> QED
      BY <1>6, <2>1, <3>1 DEF PrimaryIn, ReplicaIn, InsertServer, Owns
  <2>3. pairs' = pairs /\ ClaimsStay
    BY <1>6, ClaimsStayOrGo DEF PrimaryIn, ReplicaIn, InsertServer, MetadataOut
  <2> QED
    BY <1>1, <2>1, <2>2, <2>3
<1>7. UNCHANGED <<servers, pairs>> \/ ServersOut \/ PairRemoved \/ PairOut \/ PairIn
        \/ PrimaryIn \/ \E h \in Host : ReplicaIn(h)
  BY DEF Next, Statement, Provision, Deprovision, Allocate, AllocationFails, Listen, Ready,
     Failing, Load, Save, MetadataOut, StatementFails, Crash, vars, proxysql
<1> QED
  BY <1>2, <1>3, <1>4, <1>5, <1>6, <1>7, ClaimsStayOrGo

-------------------------------------------------------------------------------
(* What a cluster's row records, no other cluster's does.                  *)
LEMMA RecordedIsFresh == ASSUME Inv, Recorded, pc # "idle" PROVE Fresh
<1>1. target \in Allocated
  BY Standing
<1>2. alloc.port # None /\ alloc.writer # None
  BY Standing, ProvisionerAssumption DEF Recorded
<1>3. ASSUME NEW c \in Known \ {target}
      PROVE  metadata[c].port # alloc.port /\ metadata[c].writer # alloc.writer
  <2>1. CASE c \in Allocated
    BY <1>1, <1>3, <2>1 DEF Inv, UniqueAllocation, Recorded
  <2>2. CASE c \notin Allocated
    BY <1>2, <1>3, <2>2 DEF Inv, RowsWhole, Allocated
  <2> QED
    BY <2>1, <2>2
<1> QED
  BY <1>3 DEF Fresh

LEMMA StatementIsReached == Inv /\ [Next]_vars => AtStatement'
<1> SUFFICES ASSUME Inv, [Next]_vars PROVE AtStatement'
  OBVIOUS
<1>a. AtStatement
  BY DEF Inv
<1>t. alloc' \in [port : PortStart..PortEnd, writer : HostgroupStart..HostgroupEnd] \cup {None}
  BY TypeIsKept DEF TypeOK
<1> USE DEF Goto, NoFault, proxysql, command
<1>1. ASSUME NEW c \in Cluster, Provision(c) PROVE AtStatement'
  <2>1. metadata'[c] = [status |-> "provisioning", port |-> None, writer |-> None]
    BY <1>1 DEF Provision, Inv, TypeOK
  <2>2. c \in Known'
    <3>1. metadata'[c] \in Row
      BY <2>1 DEF Row
    <3> QED
      BY <3>1, NoneIsOther DEF Known
  <2> QED
    BY <1>1, <2>1, <2>2 DEF Provision, AtStatement
<1>2. ASSUME NEW c \in Cluster, Deprovision(c) PROVE AtStatement'
  <2>1. c \in Known
    BY <1>2 DEF Deprovision, Allocated
  <2>2. alloc' # None
    <3>1. metadata[c] \in Row /\ metadata[c].writer # None /\ metadata[c].port # None
      BY <1>2, <2>1, Standing DEF Deprovision, Allocated, Inv, RowsWhole
    <3>2. alloc' \in [port : PortStart..PortEnd, writer : HostgroupStart..HostgroupEnd]
      BY <1>2, <3>1 DEF Deprovision, Row
    <3> QED
      BY <3>2, NoneIsOther
  <2>3. c \in Known' /\ metadata' = metadata
    BY <1>2, <2>1 DEF Deprovision, Known
  <2> QED
    BY <1>2, <2>2, <2>3 DEF Deprovision, AtStatement, Recorded
<1>3. CASE Allocate
  <2>1. target \in Known /\ metadata[target].writer = None /\ op = "provision"
    BY <1>3, <1>a DEF Allocate, AtStatement
  <2>2. alloc' # None
    <3>1. alloc' = [port |-> Least(FreePorts), writer |-> Least(FreeWriters)]
      BY <1>3 DEF Allocate, Record
    <3>2. alloc' \in [port : PortStart..PortEnd, writer : HostgroupStart..HostgroupEnd]
      BY <1>3, <3>1, ChoiceIsFree DEF Allocate
    <3> QED
      BY <3>2, NoneIsOther
  <2>3. CASE Record(Least(FreePorts), Least(FreeWriters))
    <3>1. target \in Known'
      <4>1. target \in Cluster /\ metadata[target] \in Row
        BY <2>1, Standing
      <4>2. metadata'[target] = [status |-> metadata[target].status,
              port |-> Least(FreePorts), writer |-> Least(FreeWriters)]
        BY <2>3, <4>1 DEF Record, Inv, TypeOK, Row
      <4>3. metadata'[target] \in Row
        BY <1>3, <4>1, <4>2, ChoiceIsFree DEF Allocate, Row
      <4> QED
        BY <4>1, <4>3, NoneIsOther DEF Known
    <3>2. /\ metadata'[target].port = Least(FreePorts)
          /\ metadata'[target].writer = Least(FreeWriters)
      BY <2>1, <2>3, Standing DEF Record, Inv, TypeOK, Row
    <3> QED
      BY <1>3, <2>1, <2>2, <2>3, <3>1, <3>2 DEF Allocate, Record, AtStatement, Recorded
  <2>4. CASE /\ UNCHANGED metadata /\ clean' = FALSE /\ pc' = "failing"
             /\ alloc' = [port |-> Least(FreePorts), writer |-> Least(FreeWriters)]
    <3>1. Fresh'
      BY <1>3, <2>4, ChoiceIsFree DEF Allocate, Fresh, UsedPorts, UsedWriters, Known
    <3> QED
      BY <1>3, <2>1, <2>2, <2>4, <3>1 DEF Allocate, AtStatement, Known
  <2> QED
    BY <1>3, <2>3, <2>4 DEF Allocate
<1>4. CASE AllocationFails
  BY <1>a, <1>4 DEF AllocationFails, AtStatement, Known
<1>5. CASE PrimaryIn \/ \E h \in Host : ReplicaIn(h)
  <2>1. pc' = "replicasIn"
    <3>1. CASE PrimaryIn
      BY <3>1 DEF PrimaryIn, InsertServer, Inv, NothingLeft, Absent
    <3>2. ASSUME NEW h \in Host, ReplicaIn(h) PROVE pc' = "replicasIn"
      BY <3>2 DEF ReplicaIn, InsertServer, Inv, NothingLeft, Absent
    <3> QED
      BY <1>5, <3>1, <3>2
  <2> QED
    BY <1>a, <1>5, <2>1 DEF PrimaryIn, ReplicaIn, InsertServer, AtStatement, Recorded, Known
<1>6. CASE PairOut \/ PairIn \/ Listen \/ Load \/ Save \/ ServersOut \/ PairRemoved
  <2>1. pc # "idle" /\ Recorded /\ UNCHANGED <<metadata, op, target, alloc>>
    BY <1>a, <1>6 DEF PairOut, PairIn, Listen, Load, Save, ServersOut, PairRemoved, AtStatement
  <2>2. \/ pc' \in {"pairIn", "primaryIn"} /\ pc \in {"pairOut", "pairIn"}
        \/ pc' \in {"load", "save", "finish"}
        \/ pc' = "pairRemoved" /\ pc = "serversOut"
    BY <1>6 DEF PairOut, PairIn, Listen, Load, Save, ServersOut, PairRemoved
  <2> QED
    BY <1>a, <2>1, <2>2 DEF AtStatement, Recorded, Known
<1>7. CASE StatementFails
  <2>1. Recorded /\ Fresh
    BY <1>a, <1>7, RecordedIsFresh DEF StatementFails, AtStatement
  <2>2. Fresh'
    BY <1>7, <2>1 DEF StatementFails, Fresh, Known
  <2> QED
    BY <1>a, <1>7, <2>1, <2>2 DEF StatementFails, AtStatement, Recorded, Known
<1>8. CASE Ready \/ Failing \/ MetadataOut \/ Crash
  BY <1>8 DEF Ready, Failing, MetadataOut, Crash, AtStatement
<1>9. CASE UNCHANGED vars
  BY <1>a, <1>9 DEF vars, AtStatement, Recorded, Fresh, Known
<1> QED
  BY <1>1, <1>2, <1>3, <1>4, <1>5, <1>6, <1>7, <1>8, <1>9 DEF Next, Statement

-------------------------------------------------------------------------------
(* A provisioning meets nothing of its own cluster: what others left is    *)
(* theirs, and no server belongs to two clusters.                          *)
LEMMA NothingIsLeft == Inv /\ [Next]_vars => NothingLeft'
<1> SUFFICES ASSUME Inv, [Next]_vars PROVE NothingLeft'
  OBVIOUS
<1>n. NothingLeft
  BY DEF Inv
<1> USE DEF Goto, NoFault, proxysql, command
<1>1. CASE \E c \in Cluster : Provision(c) \/ Deprovision(c)
  BY <1>1 DEF Provision, Deprovision, NothingLeft
<1>2. CASE Allocate
  <2>1. /\ target \in Cluster /\ target \notin Allocated
        /\ todo \subseteq Hosts[target].replicas
    BY <1>2, Standing DEF Allocate, Inv, AtStatement, NothingLeft, Allocated
  <2>2. ASSUME NEW h \in {Hosts[target].primary} \cup Hosts[target].replicas PROVE Absent(h)
    <3>1. ASSUME NEW row \in servers PROVE row[2] # h
      <4>1. PICK c \in Allocated : Owns(c, row)
        BY DEF Inv, Owned
      <4>2. c \in Cluster /\ c # target
        BY <2>1, Standing DEF Allocated
      <4>3. row[2] \in {Hosts[c].primary} \cup Hosts[c].replicas
        BY <4>1 DEF Owns
      <4> QED
        BY <2>1, <4>2, <4>3, ProvisionerAssumption
    <3> QED
      BY <3>1 DEF Absent
  <2> QED
    BY <1>2, <2>1, <2>2 DEF Allocate, Record, NothingLeft, Absent
<1>3. CASE PairOut \/ PairIn
  BY <1>n, <1>3 DEF PairOut, PairIn, NothingLeft, Absent
<1>4. CASE PrimaryIn
  <2>1. target \in Cluster
    BY <1>4, Standing DEF PrimaryIn
  <2>2. \A h \in todo : h # Hosts[target].primary
    BY <1>n, <1>4, <2>1, ProvisionerAssumption DEF PrimaryIn, NothingLeft
  <2> QED
    BY <1>n, <1>4, <2>2 DEF PrimaryIn, InsertServer, NothingLeft, Absent
<1>5. ASSUME NEW h \in Host, ReplicaIn(h) PROVE NothingLeft'
  BY <1>n, <1>5 DEF ReplicaIn, InsertServer, NothingLeft, Absent
<1>6. CASE AllocationFails \/ Listen \/ Ready \/ Failing \/ Load \/ Save
           \/ ServersOut \/ PairRemoved \/ MetadataOut \/ StatementFails \/ Crash
  BY <1>6 DEF AllocationFails, Listen, Ready, Failing, Load, Save, ServersOut,
     PairRemoved, MetadataOut, StatementFails, Crash, NothingLeft
<1>7. CASE UNCHANGED vars
  BY <1>n, <1>7 DEF vars, NothingLeft, Absent
<1> QED
  BY <1>1, <1>2, <1>3, <1>4, <1>5, <1>6, <1>7 DEF Next, Statement

(* A deprovisioning has emptied its hostgroups before the row goes.        *)
LEMMA EmptiedIsKept == Inv /\ [Next]_vars => Emptied'
<1> SUFFICES ASSUME Inv, [Next]_vars PROVE Emptied'
  OBVIOUS
<1>e. Emptied /\ AtStatement
  BY DEF Inv
<1> USE DEF Goto, NoFault, proxysql, command
<1>1. CASE ServersOut
  BY <1>1 DEF ServersOut, Emptied
<1>2. CASE PairRemoved
  BY <1>e, <1>2 DEF PairRemoved, Emptied
<1>3. CASE Load \/ Save \/ UNCHANGED vars
  BY <1>e, <1>3 DEF Load, Save, vars, Emptied
<1>4. CASE Listen
  BY <1>e, <1>4 DEF Listen, AtStatement, Emptied
<1>5. CASE PairOut \/ PairIn \/ PrimaryIn \/ (\E h \in Host : ReplicaIn(h))
           \/ Allocate \/ AllocationFails
  BY <1>e, <1>5 DEF PairOut, PairIn, PrimaryIn, ReplicaIn, InsertServer, Allocate, Record,
     AllocationFails, AtStatement, Emptied
<1>6. CASE (\E c \in Cluster : Provision(c) \/ Deprovision(c)) \/ Ready \/ Failing
           \/ MetadataOut \/ StatementFails \/ Crash
  BY <1>6 DEF Provision, Deprovision, Ready, Failing, MetadataOut, StatementFails, Crash,
     Emptied
<1> QED
  BY <1>1, <1>2, <1>3, <1>4, <1>5, <1>6 DEF Next, Statement

-------------------------------------------------------------------------------
LEMMA OwnedIsClaimed == Owned => ClaimedBy(Config)
<1> SUFFICES ASSUME Owned PROVE ClaimedBy(Config)
  OBVIOUS
<1>1. ASSUME NEW row \in servers PROVE row[1] \in Claimed
  <2>1. PICK c \in Allocated : Owns(c, row)
    BY DEF Owned
  <2>2. row[1] \in Block(metadata[c].writer)
    BY <2>1 DEF Owns, Block
  <2> QED
    BY <2>2 DEF Claimed
<1>2. pairs \subseteq UsedWriters
  BY DEF Owned, UsedWriters, Allocated
<1>3. Config[1] = servers /\ Config[2] = pairs
  BY DEF Config
<1> QED
  BY <1>1, <1>2, <1>3 DEF ClaimedBy

(* A configuration that was claimed stays so while claims do.              *)
LEMMA ClaimedStays ==
  ASSUME Inv, ClaimsStay, NEW config, ClaimedBy(config), config[2] \subseteq Hostgroups
  PROVE  /\ \A row \in config[1] : row[1] \in Claimed'
         /\ config[2] \subseteq UsedWriters'
<1>1. ASSUME NEW row \in config[1] PROVE row[1] \in Claimed'
  <2>1. PICK c \in Allocated : row[1] \in Block(metadata[c].writer)
    BY DEF ClaimedBy, Claimed
  <2>2. c \in Allocated' /\ row[1] \in Block(metadata'[c].writer)
    BY <2>1 DEF ClaimsStay
  <2>3. Claimed' = UNION {Block(metadata'[d].writer) : d \in Allocated'}
    BY DEF Claimed, Block, Reader
  <2> QED
    BY <2>2, <2>3
<1>2. ASSUME NEW w \in config[2] PROVE w \in UsedWriters'
  <2>1. w # None
    BY ProvisionerAssumption DEF Hostgroups
  <2>2. PICK c \in Known : w = metadata[c].writer
    BY DEF ClaimedBy, UsedWriters
  <2>3. c \in Allocated' /\ w = metadata'[c].writer
    BY <2>1, <2>2 DEF ClaimsStay, Allocated
  <2> QED
    BY <2>3 DEF UsedWriters, Allocated
<1> QED
  BY <1>1, <1>2

LEMMA KeptUpIsKept == Inv /\ [Next]_vars => KeptUp'
<1> SUFFICES ASSUME Inv, [Next]_vars, faults' = 0
             PROVE  /\ ClaimedBy(runtime)' /\ ClaimedBy(disk)'
                    /\ pc' \in {"save", "finish"} => runtime' = Config'
                    /\ pc' = "finish" => disk' = Config'
                    /\ op' = "provision" /\ pc' \in {"load", "save", "finish"} =>
                         alloc'.port \in listening'
  BY DEF KeptUp
<1>f. ~MayFail /\ faults = 0
  <2>1. faults \in Nat
    BY DEF Inv, TypeOK
  <2>2. faults' = faults \/ faults' = faults + 1
    BY DEF Next, Statement, Provision, Deprovision, Allocate, Record, AllocationFails,
       PairOut, PairIn, PrimaryIn, ReplicaIn, InsertServer, Listen, Ready, Failing, Load,
       Save, ServersOut, PairRemoved, MetadataOut, StatementFails, Crash, NoFault, MayFail,
       vars
  <2> QED
    BY <2>1, <2>2 DEF MayFail
<1>k. KeptUp /\ ClaimedBy(runtime) /\ ClaimedBy(disk)
  BY <1>f DEF Inv, KeptUp
<1>c. ClaimedBy(Config) /\ ClaimedBy(Config)'
  BY OwnedIsKept, OwnedIsClaimed, PTL DEF Inv
<1> USE DEF Goto, proxysql, command
<1>1. ClaimedBy(runtime)' /\ ClaimedBy(disk)'
  <2>1. CASE MetadataOut
    <3>1. runtime = Config /\ disk = Config
      BY <1>f, <2>1 DEF MetadataOut, Inv, KeptUp
    <3>2. runtime' = Config' /\ disk' = Config'
      BY <2>1, <3>1 DEF MetadataOut, Config
    <3> QED
      BY <1>c, <3>2 DEF ClaimedBy
  <2>2. CASE ClaimsStay
    <3>1. runtime' \in {runtime, Config'} /\ disk' \in {disk, Config'}
      BY <1>f DEF Next, Statement, Provision, Deprovision, Allocate, Record,
         AllocationFails, PairOut, PairIn, PrimaryIn, ReplicaIn, InsertServer, Listen,
         Ready, Failing, Load, Save, ServersOut, PairRemoved, MetadataOut, StatementFails,
         Crash, vars, Config
    <3>2. runtime[2] \subseteq Hostgroups /\ disk[2] \subseteq Hostgroups
      BY DEF Inv, TypeOK
    <3>3. /\ \A row \in runtime[1] : row[1] \in Claimed'
          /\ runtime[2] \subseteq UsedWriters'
          /\ \A row \in disk[1] : row[1] \in Claimed'
          /\ disk[2] \subseteq UsedWriters'
      BY <1>k, <2>2, <3>2, ClaimedStays
    <3> QED
      BY <1>c, <3>1, <3>3 DEF ClaimedBy
  <2> QED
    BY <2>1, <2>2, ClaimsStayOrGo
<1> DEFINE Reached ==
      /\ pc' \in {"save", "finish"} => runtime' = Config'
      /\ pc' = "finish" => disk' = Config'
      /\ op' = "provision" /\ pc' \in {"load", "save", "finish"} => alloc'.port \in listening'
<1>2. ASSUME Load \/ Save PROVE Reached
  BY <1>f, <1>k, <1>2 DEF Load, Save, Config, KeptUp
<1>3. ASSUME Listen PROVE Reached
  BY <1>f, <1>3 DEF Listen
<1>4. ASSUME PairRemoved PROVE Reached
  BY <1>4 DEF PairRemoved, Inv, AtStatement
<1>5. ASSUME UNCHANGED vars PROVE Reached
  BY <1>f, <1>k, <1>5 DEF vars, KeptUp, Config
<1>6. ASSUME \/ \E c \in Cluster : Provision(c) \/ Deprovision(c)
             \/ Allocate \/ AllocationFails \/ PairOut \/ PairIn \/ PrimaryIn
             \/ \E h \in Host : ReplicaIn(h)
             \/ Ready \/ Failing \/ ServersOut \/ MetadataOut \/ StatementFails \/ Crash
      PROVE  Reached
  <2>1. pc' \notin {"load", "save", "finish"}
    BY <1>6 DEF Provision, Deprovision, Allocate, Record, AllocationFails, PairOut, PairIn,
       PrimaryIn, ReplicaIn, InsertServer, Ready, Failing, ServersOut, MetadataOut,
       StatementFails, Crash
  <2> QED
    BY <2>1
<1>7. Reached
  BY <1>2, <1>3, <1>4, <1>5, <1>6 DEF Next, Statement
<1> QED
  BY <1>1, <1>7

(* While nothing has failed, a ready cluster's port is listened on: it was *)
(* added before the row said so, and ports are never taken away.           *)
LEMMA ListeningIsKept == Inv /\ [Next]_vars => ReadyClustersListen'
<1> SUFFICES ASSUME Inv, [Next]_vars, faults' = 0, NEW c \in Known',
                    metadata'[c].status = "ready"
             PROVE  metadata'[c].port \in listening'
  BY DEF ReadyClustersListen, Status
<1>f. faults = 0
  <2>1. faults \in Nat
    BY DEF Inv, TypeOK
  <2>2. faults' = faults \/ faults' = faults + 1
    BY DEF Next, Statement, Provision, Deprovision, Allocate, Record, AllocationFails,
       PairOut, PairIn, PrimaryIn, ReplicaIn, InsertServer, Listen, Ready, Failing, Load,
       Save, ServersOut, PairRemoved, MetadataOut, StatementFails, Crash, NoFault, MayFail,
       vars
  <2> QED
    BY <2>1, <2>2
<1>l. listening \subseteq listening'
  <2>1. faults' # faults + 1
    BY <1>f
  <2> QED
    BY <2>1 DEF Next, Statement, Provision, Deprovision, Allocate, Record, AllocationFails,
       PairOut, PairIn, PrimaryIn, ReplicaIn, InsertServer, Listen, Ready, Failing, Load,
       Save, ServersOut, PairRemoved, MetadataOut, StatementFails, Crash, MayFail, vars,
       proxysql
<1>r. \A d \in Known : metadata[d].status = "ready" => metadata[d].port \in listening
  BY <1>f DEF Inv, ReadyClustersListen, Status
<1>c. c \in Cluster
  BY DEF Known
<1>1. ASSUME metadata'[c] = metadata[c] PROVE metadata'[c].port \in listening'
  BY <1>l, <1>r, <1>1 DEF Known
<1>2. ASSUME Ready, c = target, metadata'[target] =
        [status |-> "ready", port |-> alloc.port, writer |-> alloc.writer]
      PROVE metadata'[c].port \in listening'
  <2>1. alloc.port \in listening
    BY <1>f, <1>2 DEF Ready, Inv, KeptUp
  <2> QED
    BY <1>l, <1>2, <2>1
<1>3. ASSUME Allocate, target \in Known, c = target,
             metadata'[target].status = metadata[target].status
      PROVE  FALSE
  <2>1. metadata[target].port = None
    BY <1>3 DEF Allocate, Inv, AtStatement, RowsWhole
  <2>2. metadata[target].port \in listening
    BY <1>r, <1>3
  <2>3. listening \subseteq (PortStart..PortEnd) \cup {MySQLPort}
    BY DEF Inv, TypeOK
  <2>4. None \notin (PortStart..PortEnd) \cup {MySQLPort}
    BY ProvisionerAssumption
  <2> QED
    BY <2>1, <2>2, <2>3, <2>4
<1> QED
  BY <1>c, <1>1, <1>2, <1>3, RowsWritten DEF Elsewhere, Known

-------------------------------------------------------------------------------
LEMMA InvIsKept == Inv /\ [Next]_vars => Inv'
  BY TypeIsKept, AllocationsAreKept, OwnedIsKept, StatementIsReached, NothingIsLeft,
     EmptiedIsKept, KeptUpIsKept, ListeningIsKept DEF Inv

THEOREM InvAlways == Spec => []Inv
  BY InvInitially, InvIsKept, PTL DEF Spec

(* The state keeps its types: every port and hostgroup given out lies in   *)
(* the configured ranges, whatever fails.                                  *)
THEOREM ProvisionerTypes == Spec => []TypeOK
<1>1. Inv => TypeOK
  BY DEF Inv
<1> QED
  BY <1>1, InvAlways, PTL

(* What provision() leaves in ProxySQL's tables, cut off or failed, can    *)
(* always be attributed to a cluster that deprovision() accepts.           *)
THEOREM RowsAreNeverOrphaned == Spec => []NoOrphanRows
<1>1. Inv => NoOrphanRows
  <2>1. Inv => ClaimedBy(Config)
    BY OwnedIsClaimed DEF Inv
  <2> QED
    BY <2>1 DEF Inv, KeptUp, NoOrphanRows
<1> QED
  BY <1>1, InvAlways, PTL

(* A provisioning that nothing disturbs fails only for want of a port or   *)
(* of a hostgroup: its INSERTs never meet a row that is there already.     *)
THEOREM LeftoversDoNoHarm == Spec => []UndisturbedProvisionSucceeds
<1>1. Inv => UndisturbedProvisionSucceeds
  BY DEF Inv, AtStatement, UndisturbedProvisionSucceeds
<1> QED
  BY <1>1, InvAlways, PTL

(* ProxySQL listens on the port of every ready cluster while nothing has   *)
(* failed.                                                                 *)
THEOREM ReadyIsListenedOn == Spec => []ReadyClustersListen
<1>1. Inv => ReadyClustersListen
  BY DEF Inv
<1> QED
  BY <1>1, InvAlways, PTL
-------------------------------------------------------------------------------
(* The refinement.  Every statement that writes a row of the metadata      *)
(* takes or releases an allocation or leaves all of them alone; every      *)
(* statement on ProxySQL's tables enters its cluster or lets some leave.   *)
HostsOf(c) == {Hosts[c].primary} \cup Hosts[c].replicas

(* Only who holds an allocation is in the tables.                          *)
LEMMA OnlyHoldersEnter == Inv => \A c \in Cluster : InTables(c) => c \in Allocated
<1> SUFFICES ASSUME Inv, NEW c \in Cluster, NEW row \in servers, row[2] \in HostsOf(c)
             PROVE  c \in Allocated
  BY DEF InTables, HostsOf
<1>1. PICK d \in Allocated : Owns(d, row)
  BY DEF Inv, Owned
<1>2. d \in Cluster /\ row[2] \in HostsOf(d)
  BY <1>1, Standing DEF Allocated, Owns, HostsOf
<1> QED
  BY <1>1, <1>2, ProvisionerAssumption DEF HostsOf

(* A holder's pair is one of ports and hostgroups, hence not None.         *)
LEMMA HoldingIsPair ==
  Inv => \A c \in Cluster :
           /\ c \in Allocated => Holding(c) \in Allocations!Pair /\ Holding(c) # None
           /\ c \notin Allocated => Holding(c) = None
<1> SUFFICES ASSUME Inv, NEW c \in Cluster, c \in Allocated
             PROVE  Holding(c) \in Allocations!Pair /\ Holding(c) # None
  BY DEF Holding
<1>1. metadata[c] \in Row /\ metadata[c].writer # None /\ metadata[c].port # None
  BY Standing DEF Allocated, Inv, RowsWhole
<1>2. Holding(c) \in Allocations!Pair
  BY <1>1 DEF Holding, Allocations!Pair, Row
<1> QED
  BY <1>2, NoneIsOther DEF Allocations!Pair

LEMMA HoldersAreAllocated == Inv => Allocations!Holder = Allocated
<1> SUFFICES ASSUME Inv PROVE Allocations!Holder = Allocated
  OBVIOUS
<1>1. \A c \in Cluster : Holdings[c] = Holding(c)
  BY DEF Holdings
<1>2. Allocated \subseteq Cluster
  BY DEF Allocated, Known
<1> QED
  BY <1>1, <1>2, HoldingIsPair DEF Allocations!Holder

(* A step that keeps what everyone holds and who is in the tables.         *)
LEMMA NothingToSee ==
  ASSUME \A c \in Cluster : Holding(c)' = Holding(c) /\ (InTables(c)' <=> InTables(c))
  PROVE  UNCHANGED Allocations!allocationVars
  BY DEF Allocations!allocationVars, Holdings, Entered

(* A row that is written changes nothing of the other clusters.            *)
LEMMA OthersAlone ==
  ASSUME NEW c \in Cluster, Elsewhere(c), UNCHANGED <<servers, pairs>>
  PROVE  \A d \in Cluster \ {c} : Holding(d)' = Holding(d) /\ (InTables(d)' <=> InTables(d))
  BY DEF Elsewhere, Holding, InTables, Allocated, Known

(* A cluster that had no allocation takes the one its row now records.     *)
LEMMA Takes ==
  ASSUME Inv, Inv', NEW c \in Cluster, Elsewhere(c), UNCHANGED <<servers, pairs>>,
         c \notin Allocated, c \in Allocated'
  PROVE  Allocations!Take(c, Holding(c)') /\ Holding(c)' \in Allocations!Pair
<1>1. /\ \A d \in Cluster \ {c} : Holding(d)' = Holding(d) /\ (InTables(d)' <=> InTables(d))
      /\ \A d \in Cluster \ {c} : d \in Allocated' <=> d \in Allocated
  BY OthersAlone DEF Elsewhere, Allocated, Known
<1>2. ~InTables(c)
  BY OnlyHoldersEnter
<1>3. ~InTables(c)'
  <2>1. \A row \in servers' : row[2] \notin HostsOf(c)
    BY <1>2 DEF InTables, HostsOf
  <2>2. metadata'[c].writer \notin pairs
    <3>1. ASSUME NEW d \in Allocated PROVE metadata[d].writer # metadata'[c].writer
      <4>1. d \in Cluster /\ d # c
        BY DEF Allocated, Known
      <4>2. d \in Allocated' /\ metadata'[d] = metadata[d]
        BY <1>1, <4>1 DEF Elsewhere
      <4> QED
        BY <4>1, <4>2 DEF Inv, UniqueAllocation
    <3> QED
      BY <3>1 DEF Inv, Owned
  <2> QED
    BY <2>1, <2>2 DEF InTables, HostsOf
<1>4. Entered' = Entered
  BY <1>1, <1>2, <1>3 DEF Entered
<1>5. c \notin Allocations!Holder \cup Entered
  BY <1>2, HoldersAreAllocated DEF Entered
<1>6. Holding(c)' \in Allocations!Pair
  <2>1. metadata'[c] \in Row /\ metadata'[c].writer # None /\ metadata'[c].port # None
    BY DEF Inv, TypeOK, RowsWhole, Allocated, Known
  <2> QED
    BY <2>1 DEF Holding, Allocations!Pair, Row
<1>7. Holdings' = [Holdings EXCEPT ![c] = Holding(c)']
  BY <1>1 DEF Holdings
<1>8. ASSUME NEW d \in Allocations!Holder
      PROVE  /\ Holdings[d].port # Holding(c)'.port
             /\ Holdings[d].writer # Holding(c)'.writer
  <2>1. d \in Allocated /\ d \in Cluster /\ d # c
    BY HoldersAreAllocated DEF Allocated, Known
  <2>2. d \in Allocated' /\ metadata'[d] = metadata[d]
    BY <1>1, <2>1 DEF Elsewhere
  <2>3. metadata'[d].port # metadata'[c].port /\ metadata'[d].writer # metadata'[c].writer
    BY <2>1, <2>2 DEF Inv, UniqueAllocation
  <2>4. /\ Holdings[d] = [port |-> metadata[d].port, writer |-> metadata[d].writer]
        /\ Holding(c)' = [port |-> metadata'[c].port, writer |-> metadata'[c].writer]
    BY <2>1 DEF Holdings, Holding
  <2> QED
    BY <2>2, <2>3, <2>4
<1> QED
  BY <1>4, <1>5, <1>6, <1>7, <1>8 DEF Allocations!Take

(* The statements on the metadata.                                         *)
LEMMA RowsSimulated ==
  ASSUME Inv, Inv', [Next]_vars, UNCHANGED <<servers, pairs>>
  PROVE  [Allocations!Next]_Allocations!allocationVars
<1>t. metadata \in [Cluster -> Row \cup {None}]
  BY DEF Inv, TypeOK
<1>n. ASSUME NEW c \in Cluster, NEW a, a \in Allocations!Pair, Allocations!Take(c, a)
      PROVE  Allocations!Next
  BY <1>n DEF Allocations!Next
<1>1. CASE UNCHANGED metadata
  BY <1>1, NothingToSee DEF Holding, InTables, Allocated, Known
<1>2. ASSUME NEW c \in Cluster, Elsewhere(c), Holding(c)' = Holding(c),
             c \in Allocated' => c \in Allocated /\ metadata'[c].writer = metadata[c].writer,
             c \in Allocated => c \in Allocated'
      PROVE  UNCHANGED Allocations!allocationVars
  <2>1. InTables(c)' <=> InTables(c)
    BY <1>2 DEF InTables
  <2> QED
    BY <1>2, <2>1, OthersAlone, NothingToSee
<1>3. ASSUME NEW c \in Cluster, metadata[c] = None, Elsewhere(c),
             metadata'[c] = [status |-> "provisioning", port |-> None, writer |-> None]
      PROVE  UNCHANGED Allocations!allocationVars
  <2>1. c \notin Allocated /\ c \notin Allocated'
    BY <1>3 DEF Allocated, Known
  <2> QED
    BY <1>2, <1>3, <2>1 DEF Holding
<1>4. ASSUME Allocate, target \in Known, Elsewhere(target),
             metadata'[target] = [status |-> metadata[target].status,
               port |-> Least(FreePorts), writer |-> Least(FreeWriters)]
      PROVE  Allocations!Next
  <2>1. target \in Cluster /\ target \notin Allocated
    BY <1>4, Standing DEF Allocate, Inv, AtStatement, Allocated
  <2>2. target \in Allocated'
    <3>1. metadata'[target] \in Row /\ metadata'[target].writer # None
      BY <1>4, ChoiceIsFree, Standing, ProvisionerAssumption DEF Allocate, Row
    <3> QED
      BY <2>1, <3>1, NoneIsOther DEF Allocated, Known
  <2> QED
    BY <1>n, <1>4, <2>1, <2>2, Takes
<1>5. ASSUME target \in Known, Elsewhere(target), Recorded, metadata'[target] # None,
             metadata'[target].port = alloc.port, metadata'[target].writer = alloc.writer
      PROVE  UNCHANGED Allocations!allocationVars
  <2>1. /\ target \in Cluster
        /\ metadata'[target].port = metadata[target].port
        /\ metadata'[target].writer = metadata[target].writer
    BY <1>5 DEF Recorded, Known
  <2>2. target \in Allocated' <=> target \in Allocated
    BY <1>5, <2>1 DEF Allocated, Known
  <2> QED
    BY <1>2, <1>5, <2>1, <2>2 DEF Holding
<1>6. ASSUME Ready, target \in Known, Elsewhere(target),
             metadata'[target] = [status |-> "ready", port |-> alloc.port,
                                  writer |-> alloc.writer]
      PROVE  UNCHANGED Allocations!allocationVars
  <2>1. Recorded
    BY <1>6 DEF Ready, Inv, AtStatement
  <2>2. metadata'[target] # None
    BY <1>6, <2>1, Standing, NoneIsOther DEF Recorded, Row
  <2> QED
    BY <1>5, <1>6, <2>1, <2>2
<1>7. ASSUME Failing, target \in Known, Elsewhere(target),
             metadata'[target] = [status |-> "failed",
               port |-> IF alloc = None THEN None ELSE alloc.port,
               writer |-> IF alloc = None THEN None ELSE alloc.writer]
      PROVE  [Allocations!Next]_Allocations!allocationVars
  <2>1. target \in Cluster /\ metadata'[target] # None
    <3>1. metadata'[target] \in Row
      BY <1>7, Standing DEF Row
    <3> QED
      BY <1>7, <3>1, NoneIsOther DEF Known
  <2>2. CASE alloc = None
    <3>1. metadata[target].writer = None /\ metadata'[target].writer = None
      BY <1>7, <2>2 DEF Failing, Inv, AtStatement
    <3>2. target \notin Allocated /\ target \notin Allocated'
      BY <3>1 DEF Allocated
    <3> QED
      BY <1>2, <1>7, <2>1, <3>2 DEF Holding
  <2>3. CASE alloc # None /\ metadata[target].writer = None
    <3>1. target \notin Allocated
      BY <2>3 DEF Allocated
    <3>2. metadata'[target].writer # None
      BY <1>7, <2>3, Standing, ProvisionerAssumption
    <3>3. target \in Allocated'
      BY <2>1, <3>2 DEF Allocated, Known
    <3> QED
      BY <1>n, <1>7, <2>1, <3>1, <3>3, Takes
  <2>4. CASE alloc # None /\ Recorded
    BY <1>5, <1>7, <2>1, <2>4
  <2> QED
    BY <1>7, <2>2, <2>3, <2>4 DEF Failing, Inv, AtStatement
<1>8. ASSUME NEW c \in Cluster, c = target, MetadataOut, c \in Known, Elsewhere(c),
             metadata'[c] = None
      PROVE  Allocations!Next
  <2>1. /\ c \in Allocated /\ c \notin Allocated'
        /\ alloc.writer = metadata[c].writer
    <3>1. Recorded
      BY <1>8 DEF MetadataOut, Inv, AtStatement
    <3> QED
      BY <1>8, <3>1, Standing DEF MetadataOut, Recorded, Allocated, Known
  <2>2. ~InTables(c)
    <3>1. /\ \A row \in servers : row[1] \notin Block(alloc.writer)
          /\ alloc.writer \notin pairs
      BY <1>8 DEF MetadataOut, Inv, Emptied
    <3>2. ASSUME NEW row \in servers, row[2] \in HostsOf(c) PROVE FALSE
      <4>1. PICK d \in Allocated : Owns(d, row)
        BY DEF Inv, Owned
      <4>2. d \in Cluster /\ row[2] \in HostsOf(d)
        BY <4>1, Standing DEF Allocated, Owns, HostsOf
      <4>3. d = c
        BY <2>1, <3>2, <4>2, ProvisionerAssumption DEF HostsOf
      <4> QED
        BY <2>1, <3>1, <4>1, <4>3 DEF Owns, Block
    <3> QED
      BY <2>1, <3>1, <3>2 DEF InTables, HostsOf
  <2>3. ~InTables(c)'
    BY <2>1, <2>2 DEF InTables
  <2>4. c \in Allocations!Holder \ Entered
    BY <2>1, <2>2, HoldersAreAllocated DEF Entered
  <2>5. Holding(c)' = None
    BY <2>1 DEF Holding
  <2>6. /\ \A d \in Cluster \ {c} : Holding(d)' = Holding(d)
        /\ \A d \in Cluster \ {c} : InTables(d)' <=> InTables(d)
    BY <1>8, <2>1, OthersAlone
  <2>7. Holdings' = [Holdings EXCEPT ![c] = None]
    BY <2>1, <2>5, <2>6 DEF Holdings
  <2>8. Entered' = Entered
    BY <2>2, <2>3, <2>6 DEF Entered
  <2>9. Allocations!Release(c)
    BY <2>4, <2>7, <2>8 DEF Allocations!Release
  <2> QED
    BY <2>9 DEF Allocations!Next
<1> QED
  BY <1>1, <1>3, <1>4, <1>6, <1>7, <1>8, RowsWritten DEF Known

(* The statements on ProxySQL's tables.                                    *)
LEMMA TablesSimulated ==
  ASSUME Inv, UNCHANGED metadata,
         \/ ServersOut \/ PairRemoved \/ PairOut \/ PairIn
         \/ PrimaryIn \/ \E h \in Host : ReplicaIn(h)
  PROVE  Allocations!Next
<1>1. /\ Holdings' = Holdings /\ Allocated' = Allocated
      /\ \A c \in Cluster : metadata'[c] = metadata[c]
  BY DEF Holdings, Holding, Allocated, Known
<1>2. CASE servers' \subseteq servers /\ pairs' \subseteq pairs
  <2>1. Entered' \in SUBSET Entered
    BY <1>1, <1>2 DEF Entered, InTables
  <2> QED
    BY <1>1, <2>1 DEF Allocations!Leave, Allocations!Next
<1>3. PICK c \in Cluster : c = target
  BY Standing DEF Known, ServersOut, PairRemoved, PairOut, PairIn, PrimaryIn, ReplicaIn
<1>4. ASSUME c \in Allocated, InTables(c)',
             \A d \in Cluster \ {c} : InTables(d)' <=> InTables(d)
      PROVE  Allocations!Next
  <2>1. Entered' = Entered \cup {c}
    BY <1>4 DEF Entered
  <2>2. Allocations!Enter(c)
    BY <1>1, <1>4, <2>1, HoldersAreAllocated DEF Allocations!Enter
  <2> QED
    BY <2>2 DEF Allocations!Next
<1>5. CASE PairIn
  <2>1. c \in Allocated /\ alloc.writer = metadata[c].writer
    BY <1>3, <1>5, Standing DEF PairIn, Inv, AtStatement, Recorded
  <2>2. \A d \in Allocated : d # c => metadata[d].writer # metadata[c].writer
    BY <2>1 DEF Inv, UniqueAllocation
  <2>3. pairs' = pairs \cup {metadata[c].writer} /\ servers' = servers
    BY <1>5, <2>1 DEF PairIn
  <2>4. \A d \in Cluster \ {c} : InTables(d)' <=> InTables(d)
    BY <1>1, <2>2, <2>3 DEF InTables
  <2>5. InTables(c)'
    BY <1>1, <2>1, <2>3 DEF InTables
  <2> QED
    BY <1>4, <2>1, <2>4, <2>5
<1>6. CASE PrimaryIn \/ \E h \in Host : ReplicaIn(h)
  <2>1. c \in Allocated
    BY <1>3, <1>6, Standing DEF PrimaryIn, ReplicaIn, Inv, AtStatement, Recorded
  <2>2. PICK row : servers' = servers \cup {row} /\ row[2] \in HostsOf(c)
    <3>1. CASE PrimaryIn
      BY <1>3, <3>1 DEF PrimaryIn, InsertServer, HostsOf
    <3>2. CASE \E h \in Host : ReplicaIn(h)
      <4>1. pc = "replicasIn" => todo \subseteq Hosts[c].replicas
        BY <1>3 DEF Inv, NothingLeft
      <4> QED
        BY <3>2, <4>1 DEF ReplicaIn, InsertServer, HostsOf
    <3> QED
      BY <1>6, <3>1, <3>2
  <2>3. pairs' = pairs
    BY <1>6 DEF PrimaryIn, ReplicaIn, InsertServer
  <2>4. \A d \in Cluster \ {c} : row[2] \notin HostsOf(d)
    BY <2>2, ProvisionerAssumption DEF HostsOf
  <2>5. \A d \in Cluster \ {c} : InTables(d)' <=> InTables(d)
    BY <1>1, <2>2, <2>3, <2>4 DEF InTables, HostsOf
  <2>6. InTables(c)'
    BY <2>2 DEF InTables, HostsOf
  <2> QED
    BY <1>4, <2>1, <2>5, <2>6
<1> QED
  BY <1>2, <1>5, <1>6 DEF ServersOut, PairRemoved, PairOut

(* provision() and deprovision(), with every failure and crash, hand out   *)
(* ports and hostgroups as Allocation says: nothing is given twice or      *)
(* exchanged, and nothing released that is still in ProxySQL's tables.     *)
THEOREM AllocationIsImplemented == Spec => ImplementsAllocation
<1>1. Init => Allocations!Init
  <2> SUFFICES ASSUME Init PROVE Allocations!Init
    OBVIOUS
  <2>1. Allocated = {} /\ servers = {}
    BY DEF Init, Allocated, Known
  <2> QED
    BY <2>1 DEF Allocations!Init, Holdings, Holding, Entered, InTables
<1>2. Inv /\ Inv' /\ [Next]_vars => [Allocations!Next]_Allocations!allocationVars
  <2> SUFFICES ASSUME Inv, Inv', [Next]_vars
               PROVE  [Allocations!Next]_Allocations!allocationVars
    OBVIOUS
  <2>1. \/ UNCHANGED <<servers, pairs>>
        \/ /\ UNCHANGED metadata
           /\ \/ ServersOut \/ PairRemoved \/ PairOut \/ PairIn
              \/ PrimaryIn \/ \E h \in Host : ReplicaIn(h)
    BY DEF Next, Statement, Provision, Deprovision, Allocate, AllocationFails, Listen, Ready,
       Failing, Load, Save, MetadataOut, StatementFails, Crash, vars, proxysql,
       ServersOut, PairRemoved, PairOut, PairIn, PrimaryIn, ReplicaIn, InsertServer
  <2> QED
    BY <2>1, RowsSimulated, TablesSimulated
<1> QED
  BY <1>1, <1>2, InvAlways, PTL DEF Spec, ImplementsAllocation, Allocations!Spec

(* What Allocation promises is enough for clusters not to be mixed up:     *)
(* nobody shares a port or a hostgroup, and whoever ProxySQL's tables name *)
(* is a cluster that can be deprovisioned.                                 *)
THEOREM AllocationsAreDedicated == Spec => []Allocations!Dedicated
<1> USE DEF Allocations!Holder
<1>n. None \notin Allocations!Pair
  BY NoneIsOther DEF Allocations!Pair
<1>1. Allocations!Init => Allocations!Dedicated
  BY DEF Allocations!Init, Allocations!Dedicated
<1>2. ASSUME Allocations!Dedicated, [Allocations!Next]_Allocations!allocationVars,
             Holdings \in [Cluster -> Allocations!Pair \cup {None}]
      PROVE  Allocations!Dedicated'
  <2>1. CASE UNCHANGED Allocations!allocationVars
    BY <1>2, <2>1 DEF Allocations!allocationVars, Allocations!Dedicated
  <2>2. CASE Allocations!Leave
    BY <1>2, <2>2 DEF Allocations!Leave, Allocations!Dedicated
  <2>3. ASSUME NEW c \in Cluster, Allocations!Enter(c) PROVE Allocations!Dedicated'
    BY <1>2, <2>3 DEF Allocations!Enter, Allocations!Dedicated
  <2>4. ASSUME NEW c \in Cluster, Allocations!Release(c) PROVE Allocations!Dedicated'
    BY <1>2, <2>4 DEF Allocations!Release, Allocations!Dedicated
  <2>5. ASSUME NEW c \in Cluster, NEW a \in Allocations!Pair, Allocations!Take(c, a)
        PROVE  Allocations!Dedicated'
    <3>1. /\ Holdings'[c] = a
          /\ \A d \in Cluster \ {c} : Holdings'[d] = Holdings[d]
      BY <1>2, <2>5 DEF Allocations!Take
    <3> QED
      BY <1>n, <1>2, <2>5, <3>1 DEF Allocations!Take, Allocations!Dedicated
  <2> QED
    BY <1>2, <2>1, <2>2, <2>3, <2>4, <2>5 DEF Allocations!Next
<1>3. Inv => Holdings \in [Cluster -> Allocations!Pair \cup {None}]
  <2> SUFFICES ASSUME Inv, NEW c \in Cluster
               PROVE  Holding(c) \in Allocations!Pair \cup {None}
    BY DEF Holdings
  <2> QED
    BY HoldingIsPair
<1> QED
  BY <1>1, <1>2, <1>3, InvAlways, AllocationIsImplemented, PTL
     DEF ImplementsAllocation, Allocations!Spec
================================================================================
