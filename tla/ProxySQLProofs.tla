---------------------------- MODULE ProxySQLProofs ----------------------------
(***************************************************************************)
(* Proofs about ProxySQLSync, for any servers, topologies, calls and any   *)
(* number of rejected statements.  CleanInv follows an undisturbed call    *)
(* from statement to statement; CallInv says what every call has at hand.  *)
(***************************************************************************)
EXTENDS ProxySQLSync, TLAPS

(* What any call has at hand where it is.                                  *)
CallInv(p) ==
  /\ pc[p] # "start" => topo[p] \in Topology
  /\ pc[p] \in {"primaryOut", "primaryIn"} => topo[p].primary # None
  /\ pc[p] \in {"primaryOut", "primaryIn", "replicas"} \cup Server => todo[p] \subseteq Server

(* The replicas of t that are not left to do are readers and no writers,   *)
(* and the primary is a writer unless it was one of them.                  *)
Routed(t, left) ==
  /\ memory \subseteq Expected(t)
  /\ \A s \in t.replicas \ left : R(s) \in memory /\ W(s) \notin memory
  /\ t.primary # None /\ t.primary \notin t.replicas \ left => W(t.primary) \in memory

(* What an undisturbed call has done to the tables where it is.            *)
CleanAt(p) ==
  /\ pc[p] = "removeStale" => todo[p] = memory \ Expected(topo[p])
  /\ pc[p] \in {"primaryOut", "primaryIn"} =>
       memory \subseteq Expected(topo[p]) /\ todo[p] = topo[p].replicas
  /\ pc[p] = "replicas" => todo[p] \subseteq topo[p].replicas /\ Routed(topo[p], todo[p])
  /\ pc[p] \in Server =>
       /\ todo[p] \subseteq topo[p].replicas /\ pc[p] \in todo[p] /\ W(pc[p]) \notin memory
       /\ memory \subseteq Expected(topo[p])
       /\ \A s \in topo[p].replicas \ todo[p] : R(s) \in memory /\ W(s) \notin memory
       /\ topo[p].primary # None /\ topo[p].primary # pc[p]
            /\ topo[p].primary \notin topo[p].replicas \ todo[p] => W(topo[p].primary) \in memory
  /\ pc[p] \in {"replicationIn", "rules", "load", "save", "done"} => memory = Installed(topo[p])
  /\ pc[p] = "replicationIn" => replication = FALSE
  /\ pc[p] \in {"save", "done"} => runtime = memory
  /\ pc[p] = "done" => disk = memory

CleanInv(p) ==
  clean[p] = TRUE /\ pc[p] # "start" =>
    (\A q \in Call \ {p} : Idle(q)) /\ success[p] = TRUE /\ CleanAt(p)

Inv == TypeOK /\ \A p \in Call : CallInv(p) /\ CleanInv(p)

LEMMA Rows ==
  /\ \A s \in Server : W(s) \in Row /\ R(s) \in Row
  /\ \A s, t : W(s) # R(t) /\ (W(s) = W(t) => s = t) /\ (R(s) = R(t) => s = t)
  BY DEF W, R, Row

LEMMA ExpectedRows ==
  ASSUME NEW t \in Topologies
  PROVE  /\ Expected(t) \subseteq Row
         /\ t.primary # None => W(t.primary) \in Expected(t)
         /\ \A s \in t.replicas : R(s) \in Expected(t)
         /\ t.primary \in Server \cup {None} /\ t.replicas \subseteq Server
  BY Rows DEF Expected, Topologies

(* When no replica is left to do, the table is as it should be.            *)
LEMMA RoutedIsInstalled ==
  ASSUME NEW t \in Topologies, Routed(t, {}) PROVE memory = Installed(t)
<1>1. ASSUME NEW x \in memory PROVE x \in Installed(t)
  BY <1>1 DEF Routed, Installed
<1>2. ASSUME NEW x \in Installed(t) PROVE x \in memory
  <2>1. CASE \E s \in {t.primary} \ {None} : x = W(s)
    <3>1. x = W(t.primary) /\ t.primary # None
      BY <2>1
    <3>2. t.primary \notin t.replicas
      BY <1>2, <3>1 DEF Installed
    <3>. QED
      BY <3>1, <3>2 DEF Routed
  <2>2. CASE \E s \in t.replicas : x = R(s)
    BY <2>2 DEF Routed
  <2>. QED
    BY <1>2, <2>1, <2>2 DEF Installed, Expected
<1>. QED
  BY <1>1, <1>2

LEMMA InitInv == Init => Inv
<1> SUFFICES ASSUME Init PROVE Inv
  OBVIOUS
<1>1. TypeOK
  <2>1. "start" \in Label /\ faults \in 0 .. MaxFaults
    BY ProxySQLAssumption DEF Init, Label
  <2>. QED
    BY <2>1 DEF Init, TypeOK
<1>2. ASSUME NEW p \in Call PROVE CallInv(p) /\ CleanInv(p)
  <2>1. pc[p] = "start" /\ "start" \notin Server
    BY ProxySQLAssumption DEF Init, Label
  <2>. QED
    BY <2>1 DEF CallInv, CleanInv
<1>. QED
  BY <1>1, <1>2 DEF Inv

LEMMA StartInv ==
  ASSUME Inv, NEW p \in Call, NEW t \in Topology, Start(p, t) PROVE Inv'
<1>1. /\ pc' = [pc EXCEPT ![p] = "read"] /\ topo' = [topo EXCEPT ![p] = t]
      /\ success' = [success EXCEPT ![p] = TRUE]
      /\ clean' = [q \in Call |-> q = p /\ \A r \in Call : Idle(r)]
      /\ UNCHANGED <<memory, runtime, disk, replication, cache, todo, faults>>
  BY DEF Start, Goto, tables
<1>2. TypeOK'
  <2>1. "read" \in Label /\ clean' \in [Call -> BOOLEAN]
    BY <1>1 DEF Label
  <2>. QED
    BY <1>1, <2>1 DEF Inv, TypeOK
<1>3. pc'[p] = "read" /\ topo'[p] = t /\ success'[p] = TRUE /\ "read" \notin Server
  BY <1>1, ProxySQLAssumption DEF Inv, TypeOK, Label
<1>4. CallInv(p)'
  BY <1>3 DEF CallInv
<1>5. CleanInv(p)'
  <2>1. clean'[p] = TRUE => \A r \in Call : Idle(r)
    BY <1>1
  <2>2. \A q \in Call \ {p} : Idle(q) => Idle(q)'
    BY <1>1 DEF Inv, TypeOK, Idle
  <2>3. CleanAt(p)'
    BY <1>3 DEF CleanAt
  <2>. QED
    BY <1>3, <2>1, <2>2, <2>3 DEF CleanInv
<1>6. ASSUME NEW q \in Call, q # p PROVE CallInv(q)' /\ CleanInv(q)'
  <2>1. pc'[q] = pc[q] /\ topo'[q] = topo[q] /\ todo'[q] = todo[q] /\ clean'[q] = FALSE
    BY <1>1, <1>6 DEF Inv, TypeOK
  <2>. QED
    BY <2>1 DEF Inv, CallInv, CleanInv
<1>. QED
  BY <1>2, <1>4, <1>5, <1>6 DEF Inv

(* A step of call p: the others are where they were, and none of them is   *)
(* undisturbed, since p is under way.                                      *)
LEMMA CallMoves ==
  ASSUME Inv, TypeOK', NEW p \in Call, ~Idle(p), UNCHANGED topo, CallInv(p)',
         \A q \in Call \ {p} : pc'[q] = pc[q] /\ todo'[q] = todo[q] /\ clean'[q] = clean[q],
         clean'[p] = TRUE => clean[p] = TRUE /\ success'[p] = TRUE /\ CleanAt(p)'
  PROVE  Inv'
<1>1. ASSUME NEW q \in Call, q # p PROVE CallInv(q)' /\ CleanInv(q)'
  <2>1. clean[q] = TRUE /\ pc[q] # "start" => FALSE
    BY <1>1 DEF Inv, CleanInv
  <2>. QED
    BY <1>1, <2>1 DEF Inv, CallInv, CleanInv
<1>2. CleanInv(p)'
  <2>1. pc[p] # "start"
    BY DEF Idle
  <2>2. clean'[p] = TRUE => \A q \in Call \ {p} : Idle(q)'
    BY <2>1 DEF Inv, CleanInv, Idle
  <2>. QED
    BY <2>2 DEF CleanInv
<1>. QED
  BY <1>1, <1>2 DEF Inv

LEMMA Faulted ==
  ASSUME Inv, NEW p \in Call, Fault(p) \/ NoFault
  PROVE  /\ faults' \in 0 .. MaxFaults /\ clean' \in [Call -> BOOLEAN]
         /\ \A q \in Call \ {p} : clean'[q] = clean[q]
         /\ clean'[p] = TRUE => clean[p] = TRUE /\ ~Fault(p)
<1>. MaxFaults \in Nat /\ faults \in 0 .. MaxFaults /\ clean \in [Call -> BOOLEAN]
  BY ProxySQLAssumption DEF Inv, TypeOK
<1>1. CASE Fault(p)
  <2>1. clean' = [clean EXCEPT ![p] = FALSE] /\ faults < MaxFaults /\ faults' = faults + 1
    BY <1>1 DEF Fault
  <2>. QED
    BY <2>1
<1>2. CASE NoFault /\ ~Fault(p)
  BY <1>2 DEF NoFault
<1>. QED
  BY <1>1, <1>2

(* The steps that work on one entry of todo.  What a call says of itself   *)
(* does not depend on being undisturbed.                                   *)
LEMMA Labels ==
  /\ "start" \notin Server /\ "read" \notin Server /\ "removeStale" \notin Server
  /\ "primaryOut" \notin Server /\ "primaryIn" \notin Server /\ "replicas" \notin Server
  /\ "replicationIn" \notin Server /\ "rules" \notin Server /\ "load" \notin Server
  /\ "save" \notin Server /\ "done" \notin Server
  BY ProxySQLAssumption DEF Label

LEMMA Going ==
  ASSUME Inv, NEW p \in Call, NEW l \in Label \cup Server, Goto(p, l)
  PROVE  /\ pc' \in [Call -> Server \cup Label] /\ pc'[p] = l
         /\ \A q \in Call \ {p} : pc'[q] = pc[q]
  BY DEF Inv, TypeOK, Goto

LEMMA TopologyOf ==
  ASSUME Inv, NEW p \in Call, pc[p] # "start"
  PROVE  topo[p] \in Topologies /\ topo[p] \in Topology
  BY ProxySQLAssumption DEF Inv, CallInv

LEMMA Undisturbed ==
  ASSUME Inv, NEW p \in Call, clean[p] = TRUE, pc[p] # "start"
  PROVE  success[p] = TRUE /\ CleanAt(p)
  BY DEF Inv, CleanInv

LEMMA ReadInv == ASSUME Inv, NEW p \in Call, Read(p) PROVE Inv'
<1>1. /\ pc[p] = "read" /\ Goto(p, "removeStale") /\ (Fault(p) \/ NoFault)
      /\ todo' = [todo EXCEPT ![p] = cache' \ Expected(topo[p])]
      /\ UNCHANGED <<memory, runtime, disk, replication, topo, success>>
      /\ cache' = memory \/ (cache' = cache /\ Fault(p))
  BY DEF Read, tables
<1>2. pc' \in [Call -> Server \cup Label] /\ pc'[p] = "removeStale" /\ \A q \in Call \ {p} : pc'[q] = pc[q]
  BY <1>1, Going DEF Label
<1>3. cache' \subseteq Row
  BY <1>1 DEF Inv, TypeOK
<1>4. /\ todo'[p] = cache' \ Expected(topo[p]) /\ todo' \in [Call -> SUBSET (Row \cup Server)]
      /\ \A q \in Call \ {p} : todo'[q] = todo[q]
  BY <1>1, <1>3 DEF Inv, TypeOK
<1>5. TypeOK'
  BY <1>1, <1>2, <1>3, <1>4, Faulted DEF Inv, TypeOK
<1>6. CallInv(p)'
  BY <1>1, <1>2, Labels, TopologyOf DEF CallInv
<1>7. clean'[p] = TRUE => clean[p] = TRUE /\ success'[p] = TRUE /\ CleanAt(p)'
  <2> SUFFICES ASSUME clean'[p] = TRUE PROVE clean[p] = TRUE /\ success'[p] = TRUE /\ CleanAt(p)'
    OBVIOUS
  <2>1. clean[p] = TRUE /\ cache' = memory
    BY <1>1, Faulted
  <2>2. success[p] = TRUE
    BY <1>1, <2>1, Undisturbed
  <2>3. CleanAt(p)'
    BY <1>1, <1>2, <1>4, <2>1, Labels DEF CleanAt
  <2>. QED
    BY <1>1, <2>1, <2>2, <2>3
<1>. QED
  BY <1>1, <1>2, <1>4, <1>5, <1>6, <1>7, Faulted, CallMoves DEF Idle

LEMMA RemoveStaleInv == ASSUME Inv, NEW p \in Call, RemoveStale(p) PROVE Inv'
<1>1. /\ pc[p] = "removeStale" /\ (Fault(p) \/ NoFault)
      /\ UNCHANGED <<runtime, disk, replication, cache, pc, topo, success>>
  BY DEF RemoveStale
<1>2. PICK row \in todo[p] : /\ todo' = [todo EXCEPT ![p] = @ \ {row}]
                             /\ memory' = memory \ {row} \/ (memory' = memory /\ Fault(p))
  BY DEF RemoveStale
<1>3. /\ todo'[p] = todo[p] \ {row} /\ todo' \in [Call -> SUBSET (Row \cup Server)]
      /\ \A q \in Call \ {p} : todo'[q] = todo[q]
  BY <1>2 DEF Inv, TypeOK
<1>4. TypeOK'
  BY <1>1, <1>2, <1>3, Faulted DEF Inv, TypeOK
<1>5. CallInv(p)'
  BY <1>1, Labels, TopologyOf DEF CallInv
<1>6. clean'[p] = TRUE => clean[p] = TRUE /\ success'[p] = TRUE /\ CleanAt(p)'
  <2> SUFFICES ASSUME clean'[p] = TRUE PROVE clean[p] = TRUE /\ success'[p] = TRUE /\ CleanAt(p)'
    OBVIOUS
  <2>1. clean[p] = TRUE /\ memory' = memory \ {row}
    BY <1>1, <1>2, Faulted
  <2>2. success[p] = TRUE /\ todo[p] = memory \ Expected(topo[p])
    BY <1>1, <2>1, Undisturbed DEF CleanAt
  <2>3. CleanAt(p)'
    BY <1>1, <1>3, <2>1, <2>2, Labels DEF CleanAt
  <2>. QED
    BY <1>1, <2>1, <2>2, <2>3
<1>. QED
  BY <1>1, <1>3, <1>4, <1>5, <1>6, Faulted, CallMoves DEF Idle

LEMMA StaleRemovedInv == ASSUME Inv, NEW p \in Call, StaleRemoved(p) PROVE Inv'
<1>1. /\ pc[p] = "removeStale" /\ todo[p] = {} /\ todo' = [todo EXCEPT ![p] = topo[p].replicas]
      /\ UNCHANGED <<memory, runtime, disk, replication, cache, topo, success, clean, faults>>
      /\ topo[p].primary = None => Goto(p, "replicas")
      /\ topo[p].primary # None => Goto(p, "primaryOut")
  BY DEF StaleRemoved, tables
<1>2. /\ pc' \in [Call -> Server \cup Label] /\ \A q \in Call \ {p} : pc'[q] = pc[q]
      /\ pc'[p] = IF topo[p].primary = None THEN "replicas" ELSE "primaryOut"
  BY <1>1, Going DEF Label
<1>3. topo[p] \in Topologies /\ topo[p] \in Topology /\ topo[p].replicas \subseteq Server
  BY <1>1, TopologyOf, ExpectedRows
<1>4. /\ todo'[p] = topo[p].replicas /\ todo' \in [Call -> SUBSET (Row \cup Server)]
      /\ \A q \in Call \ {p} : todo'[q] = todo[q]
  BY <1>1, <1>3 DEF Inv, TypeOK
<1>5. TypeOK'
  BY <1>1, <1>2, <1>4 DEF Inv, TypeOK
<1>6. CallInv(p)'
  BY <1>1, <1>2, <1>3, <1>4, Labels DEF CallInv
<1>7. clean'[p] = TRUE => clean[p] = TRUE /\ success'[p] = TRUE /\ CleanAt(p)'
  <2> SUFFICES ASSUME clean[p] = TRUE PROVE success'[p] = TRUE /\ CleanAt(p)'
    BY <1>1
  <2>1. success[p] = TRUE /\ memory \subseteq Expected(topo[p])
    BY <1>1, Undisturbed DEF CleanAt
  <2>2. CASE topo[p].primary = None
    BY <1>1, <1>2, <1>4, <2>1, <2>2, Labels DEF CleanAt, Routed
  <2>3. CASE topo[p].primary # None
    BY <1>1, <1>2, <1>4, <2>1, <2>3, Labels DEF CleanAt
  <2>. QED
    BY <1>1, <2>1, <2>2, <2>3
<1>. QED
  BY <1>1, <1>2, <1>4, <1>5, <1>6, <1>7, CallMoves DEF Idle

LEMMA PrimaryOutInv == ASSUME Inv, NEW p \in Call, PrimaryOutOfReaders(p) PROVE Inv'
<1>1. /\ pc[p] = "primaryOut" /\ Goto(p, "primaryIn") /\ (Fault(p) \/ NoFault)
      /\ memory' = memory \ {R(topo[p].primary)} \/ (memory' = memory /\ Fault(p))
      /\ UNCHANGED <<runtime, disk, replication, cache, topo, todo, success>>
  BY DEF PrimaryOutOfReaders
<1>2. /\ pc' \in [Call -> Server \cup Label] /\ pc'[p] = "primaryIn"
      /\ \A q \in Call \ {p} : pc'[q] = pc[q]
  BY <1>1, Going DEF Label
<1>3. TypeOK'
  BY <1>1, <1>2, Faulted DEF Inv, TypeOK
<1>4. CallInv(p)'
  BY <1>1, <1>2, Labels DEF Inv, CallInv
<1>5. ASSUME clean'[p] = TRUE PROVE clean[p] = TRUE /\ success'[p] = TRUE /\ CleanAt(p)'
  <2>1. clean[p] = TRUE /\ memory' \subseteq memory
    BY <1>1, <1>5, Faulted
  <2>2. success[p] = TRUE /\ memory \subseteq Expected(topo[p]) /\ todo[p] = topo[p].replicas
    BY <1>1, <2>1, Undisturbed DEF CleanAt
  <2>3. CleanAt(p)'
    BY <1>1, <1>2, <2>1, <2>2, Labels DEF CleanAt
  <2>. QED
    BY <1>1, <2>1, <2>2, <2>3
<1>. QED
  BY <1>1, <1>2, <1>3, <1>4, <1>5, Faulted, CallMoves DEF Idle

LEMMA PrimaryInInv == ASSUME Inv, NEW p \in Call, PrimaryIntoWriters(p) PROVE Inv'
<1>1. /\ pc[p] = "primaryIn" /\ Goto(p, "replicas") /\ (Fault(p) \/ NoFault)
      /\ memory' = memory \cup {W(topo[p].primary)} \/ (memory' = memory /\ Fault(p))
      /\ UNCHANGED <<runtime, disk, replication, cache, topo, todo, success>>
  BY DEF PrimaryIntoWriters
<1>2. /\ pc' \in [Call -> Server \cup Label] /\ pc'[p] = "replicas"
      /\ \A q \in Call \ {p} : pc'[q] = pc[q]
  BY <1>1, Going DEF Label
<1>k. /\ topo[p] \in Topologies /\ topo[p].primary # None /\ topo[p].primary \in Server
      /\ todo[p] \subseteq Server
  BY <1>1, TopologyOf, ExpectedRows DEF Inv, CallInv
<1>3. TypeOK'
  <2>1. memory' \subseteq Row
    BY <1>1, <1>k, Rows DEF Inv, TypeOK
  <2>. QED
    BY <1>1, <1>2, <2>1, Faulted DEF Inv, TypeOK
<1>4. CallInv(p)'
  BY <1>1, <1>2, Labels DEF Inv, CallInv
<1>5. ASSUME clean'[p] = TRUE PROVE clean[p] = TRUE /\ success'[p] = TRUE /\ CleanAt(p)'
  <2>1. clean[p] = TRUE /\ memory' = memory \cup {W(topo[p].primary)}
    BY <1>1, <1>5, Faulted
  <2>2. success[p] = TRUE /\ memory \subseteq Expected(topo[p]) /\ todo[p] = topo[p].replicas
    BY <1>1, <2>1, Undisturbed DEF CleanAt
  <2>3. memory' \subseteq Expected(topo[p])
    BY <1>k, <2>1, <2>2, ExpectedRows
  <2>4. Routed(topo[p], todo[p])'
    BY <1>1, <2>1, <2>2, <2>3 DEF Routed
  <2>5. CleanAt(p)'
    BY <1>1, <1>2, <2>2, <2>4, Labels DEF CleanAt
  <2>. QED
    BY <1>1, <2>1, <2>2, <2>5
<1>. QED
  BY <1>1, <1>2, <1>3, <1>4, <1>5, Faulted, CallMoves DEF Idle

LEMMA ReplicaOutInv == ASSUME Inv, NEW p \in Call, ReplicaOutOfWriters(p) PROVE Inv'
<1>1. /\ pc[p] = "replicas" /\ UNCHANGED <<runtime, disk, replication, cache, topo, success>>
      /\ (Fault(p) \/ NoFault)
  BY DEF ReplicaOutOfWriters
<1>2. PICK s \in todo[p] :
        \/ memory' = memory \ {W(s)} /\ Goto(p, s) /\ todo' = todo
        \/ Fault(p) /\ todo' = [todo EXCEPT ![p] = @ \ {s}] /\ memory' = memory /\ pc' = pc
  BY DEF ReplicaOutOfWriters
<1>k. /\ topo[p] \in Topologies /\ topo[p] \in Topology /\ topo[p].replicas \subseteq Server
      /\ todo[p] \subseteq Server /\ s \in Server /\ s # "start"
  BY <1>1, TopologyOf, ExpectedRows, Labels DEF Inv, CallInv
<1>3. CASE memory' = memory \ {W(s)} /\ Goto(p, s) /\ todo' = todo
  <2>1. /\ pc' \in [Call -> Server \cup Label] /\ pc'[p] = s /\ \A q \in Call \ {p} : pc'[q] = pc[q]
    BY <1>3, <1>k, Going
  <2>2. TypeOK'
    BY <1>1, <1>3, <2>1, Faulted DEF Inv, TypeOK
  <2>3. CallInv(p)'
    BY <1>1, <1>3, <1>k, <2>1, Labels DEF CallInv
  <2>4. ASSUME clean'[p] = TRUE PROVE clean[p] = TRUE /\ success'[p] = TRUE /\ CleanAt(p)'
    <3>1. clean[p] = TRUE
      BY <1>1, <2>4, Faulted
    <3>2. /\ success[p] = TRUE /\ todo[p] \subseteq topo[p].replicas
          /\ Routed(topo[p], todo[p])
      BY <1>1, <3>1, Undisturbed DEF CleanAt
    <3>3. /\ memory' \subseteq Expected(topo[p]) /\ W(s) \notin memory'
          /\ \A u \in topo[p].replicas \ todo[p] : R(u) \in memory' /\ W(u) \notin memory'
      BY <1>3, <3>2, Rows DEF Routed
    <3>4. topo[p].primary # None /\ topo[p].primary # s
            /\ topo[p].primary \notin topo[p].replicas \ todo[p] => W(topo[p].primary) \in memory'
      BY <1>3, <3>2, Rows DEF Routed
    <3>5. /\ s # "removeStale" /\ s # "primaryOut" /\ s # "primaryIn" /\ s # "replicas"
          /\ s # "replicationIn" /\ s # "rules" /\ s # "load" /\ s # "save" /\ s # "done"
      BY <1>k, Labels
    <3>6. CleanAt(p)'
      BY <1>1, <1>3, <1>k, <2>1, <3>2, <3>3, <3>4, <3>5 DEF CleanAt
    <3>. QED
      BY <1>1, <3>1, <3>2, <3>6
  <2>. QED
    BY <1>1, <1>3, <2>1, <2>2, <2>3, <2>4, Faulted, CallMoves DEF Idle
<1>4. CASE Fault(p) /\ todo' = [todo EXCEPT ![p] = @ \ {s}] /\ memory' = memory /\ pc' = pc
  <2>1. /\ todo'[p] = todo[p] \ {s} /\ todo' \in [Call -> SUBSET (Row \cup Server)]
        /\ \A q \in Call \ {p} : todo'[q] = todo[q]
    BY <1>4 DEF Inv, TypeOK
  <2>2. TypeOK'
    BY <1>1, <1>4, <2>1, Faulted DEF Inv, TypeOK
  <2>3. CallInv(p)'
    BY <1>1, <1>4, <1>k, <2>1, Labels DEF CallInv
  <2>. QED
    BY <1>1, <1>4, <2>1, <2>2, <2>3, Faulted, CallMoves DEF Idle
<1>. QED
  BY <1>2, <1>3, <1>4

LEMMA ReplicaInInv == ASSUME Inv, NEW p \in Call, ReplicaIntoReaders(p) PROVE Inv'
<1> DEFINE s == pc[p]
<1>1. /\ s \in Server /\ Goto(p, "replicas") /\ (Fault(p) \/ NoFault)
      /\ memory' = memory \cup {R(s)} \/ (memory' = memory /\ Fault(p))
      /\ todo' = [todo EXCEPT ![p] = @ \ {s}]
      /\ UNCHANGED <<runtime, disk, replication, cache, topo, success>>
  BY DEF ReplicaIntoReaders
<1>2. /\ pc' \in [Call -> Server \cup Label] /\ pc'[p] = "replicas"
      /\ \A q \in Call \ {p} : pc'[q] = pc[q]
  BY <1>1, Going DEF Label
<1>k. /\ s # "start" /\ s # "done"
      /\ topo[p] \in Topologies /\ topo[p] \in Topology /\ topo[p].replicas \subseteq Server
      /\ todo[p] \subseteq Server
  BY <1>1, TopologyOf, ExpectedRows, Labels DEF Inv, CallInv
<1>3. /\ todo'[p] = todo[p] \ {s} /\ todo' \in [Call -> SUBSET (Row \cup Server)]
      /\ \A q \in Call \ {p} : todo'[q] = todo[q]
  BY <1>1 DEF Inv, TypeOK
<1>4. TypeOK'
  <2>1. memory' \subseteq Row
    BY <1>1, Rows DEF Inv, TypeOK
  <2>. QED
    BY <1>1, <1>2, <1>3, <2>1, Faulted DEF Inv, TypeOK
<1>5. CallInv(p)'
  BY <1>1, <1>2, <1>3, <1>k, Labels DEF CallInv
<1>6. ASSUME clean'[p] = TRUE PROVE clean[p] = TRUE /\ success'[p] = TRUE /\ CleanAt(p)'
  <2>1. clean[p] = TRUE /\ memory' = memory \cup {R(s)}
    BY <1>1, <1>6, Faulted
  <2>2. /\ success[p] = TRUE
        /\ todo[p] \subseteq topo[p].replicas /\ s \in todo[p] /\ W(s) \notin memory
        /\ memory \subseteq Expected(topo[p])
        /\ \A u \in topo[p].replicas \ todo[p] : R(u) \in memory /\ W(u) \notin memory
        /\ topo[p].primary # None /\ topo[p].primary # s
             /\ topo[p].primary \notin topo[p].replicas \ todo[p] => W(topo[p].primary) \in memory
    BY <1>1, <1>k, <2>1, Undisturbed DEF CleanAt
  <2>3. memory' \subseteq Expected(topo[p])
    BY <1>k, <2>1, <2>2, ExpectedRows
  <2>4. \A u \in topo[p].replicas \ (todo[p] \ {s}) : R(u) \in memory' /\ W(u) \notin memory'
    BY <2>1, <2>2, Rows
  <2>5. Routed(topo[p], todo[p])'
    BY <1>1, <1>3, <2>1, <2>2, <2>3, <2>4 DEF Routed
  <2>6. CleanAt(p)'
    BY <1>1, <1>2, <1>3, <2>2, <2>5, Labels DEF CleanAt
  <2>. QED
    BY <1>1, <2>1, <2>2, <2>6
<1>. QED
  BY <1>1, <1>2, <1>3, <1>4, <1>5, <1>6, <1>k, Faulted, CallMoves DEF Idle

LEMMA ReplicationOutInv == ASSUME Inv, NEW p \in Call, ReplicationOut(p) PROVE Inv'
<1>1. /\ pc[p] = "replicas" /\ todo[p] = {} /\ Goto(p, "replicationIn") /\ (Fault(p) \/ NoFault)
      /\ replication' = FALSE \/ (replication' = replication /\ Fault(p))
      /\ UNCHANGED <<memory, runtime, disk, cache, topo, todo, success>>
  BY DEF ReplicationOut
<1>2. /\ pc' \in [Call -> Server \cup Label] /\ pc'[p] = "replicationIn"
      /\ \A q \in Call \ {p} : pc'[q] = pc[q]
  BY <1>1, Going DEF Label
<1>3. TypeOK'
  BY <1>1, <1>2, Faulted DEF Inv, TypeOK
<1>4. topo[p] \in Topologies /\ topo[p] \in Topology
  BY <1>1, TopologyOf
<1>5. CallInv(p)'
  BY <1>1, <1>2, <1>4, Labels DEF CallInv
<1>6. ASSUME clean'[p] = TRUE PROVE clean[p] = TRUE /\ success'[p] = TRUE /\ CleanAt(p)'
  <2>1. clean[p] = TRUE /\ replication' = FALSE
    BY <1>1, <1>6, Faulted
  <2>2. success[p] = TRUE /\ Routed(topo[p], {})
    BY <1>1, <2>1, Undisturbed DEF CleanAt
  <2>3. memory = Installed(topo[p])
    BY <1>4, <2>2, RoutedIsInstalled
  <2>4. Installed(topo[p])' = Installed(topo[p])
    BY <1>1
  <2>5. CleanAt(p)'
    BY <1>1, <1>2, <2>1, <2>3, <2>4, Labels DEF CleanAt
  <2>. QED
    BY <1>1, <2>1, <2>2, <2>5
<1>. QED
  BY <1>1, <1>2, <1>3, <1>5, <1>6, Faulted, CallMoves DEF Idle

LEMMA ReplicationInInv == ASSUME Inv, NEW p \in Call, ReplicationIn(p) PROVE Inv'
<1>1. /\ pc[p] = "replicationIn" /\ (Fault(p) \/ NoFault)
      /\ UNCHANGED <<memory, runtime, disk, cache, topo, todo>>
      /\ \/ Goto(p, "rules") /\ replication' = TRUE /\ success' = success
         \/ /\ Goto(p, "done") /\ replication' = replication
            /\ success' = [success EXCEPT ![p] = FALSE] /\ (replication = TRUE \/ Fault(p))
  BY DEF ReplicationIn
<1>2. PICK l \in {"rules", "done"} :
        /\ Goto(p, l) /\ (l = "done" => replication = TRUE \/ Fault(p))
        /\ (l = "rules" => success' = success)
        /\ success' \in [Call -> BOOLEAN]
  BY <1>1 DEF Inv, TypeOK
<1>3. /\ pc' \in [Call -> Server \cup Label] /\ pc'[p] = l
      /\ \A q \in Call \ {p} : pc'[q] = pc[q]
  BY <1>2, Going DEF Label
<1>4. TypeOK'
  BY <1>1, <1>2, <1>3, Faulted DEF Inv, TypeOK
<1>5. CallInv(p)'
  BY <1>1, <1>2, <1>3, TopologyOf, Labels DEF CallInv
<1>6. ASSUME clean'[p] = TRUE PROVE clean[p] = TRUE /\ success'[p] = TRUE /\ CleanAt(p)'
  <2>1. clean[p] = TRUE /\ ~Fault(p)
    BY <1>1, <1>6, Faulted
  <2>2. success[p] = TRUE /\ memory = Installed(topo[p]) /\ replication = FALSE
    BY <1>1, <2>1, Undisturbed DEF CleanAt
  <2>3. l = "rules" /\ success'[p] = TRUE
    BY <1>2, <2>1, <2>2
  <2>4. CleanAt(p)'
    BY <1>1, <1>3, <2>2, <2>3, Labels DEF CleanAt
  <2>. QED
    BY <2>1, <2>3, <2>4
<1>. QED
  BY <1>1, <1>3, <1>4, <1>5, <1>6, Faulted, CallMoves DEF Idle

LEMMA QueryRulesInv == ASSUME Inv, NEW p \in Call, QueryRules(p) PROVE Inv'
<1>1. /\ pc[p] = "rules" /\ (Fault(p) \/ NoFault)
      /\ UNCHANGED <<memory, runtime, disk, replication, cache, topo, todo>>
  BY DEF QueryRules, tables
<1>2. PICK l \in {"load", "done"} :
        /\ Goto(p, l) /\ (l = "done" => Fault(p)) /\ (l = "load" => success' = success)
        /\ success' \in [Call -> BOOLEAN]
  BY DEF QueryRules, Inv, TypeOK
<1>3. /\ pc' \in [Call -> Server \cup Label] /\ pc'[p] = l
      /\ \A q \in Call \ {p} : pc'[q] = pc[q]
  BY <1>2, Going DEF Label
<1>4. TypeOK'
  BY <1>1, <1>2, <1>3, Faulted DEF Inv, TypeOK
<1>5. CallInv(p)'
  BY <1>1, <1>2, <1>3, TopologyOf, Labels DEF CallInv
<1>6. ASSUME clean'[p] = TRUE PROVE clean[p] = TRUE /\ success'[p] = TRUE /\ CleanAt(p)'
  <2>1. clean[p] = TRUE /\ l = "load" /\ success' = success
    BY <1>1, <1>2, <1>6, Faulted
  <2>2. success[p] = TRUE /\ memory = Installed(topo[p])
    BY <1>1, <2>1, Undisturbed DEF CleanAt
  <2>3. CleanAt(p)'
    BY <1>1, <1>3, <2>1, <2>2, Labels DEF CleanAt
  <2>. QED
    BY <2>1, <2>2, <2>3
<1>. QED
  BY <1>1, <1>3, <1>4, <1>5, <1>6, Faulted, CallMoves DEF Idle

LEMMA LoadInv == ASSUME Inv, NEW p \in Call, LoadToRuntime(p) PROVE Inv'
<1>1. /\ pc[p] = "load" /\ Goto(p, "save") /\ (Fault(p) \/ NoFault)
      /\ runtime' = memory \/ (runtime' = runtime /\ Fault(p))
      /\ UNCHANGED <<memory, disk, replication, cache, topo, todo, success>>
  BY DEF LoadToRuntime
<1>2. /\ pc' \in [Call -> Server \cup Label] /\ pc'[p] = "save"
      /\ \A q \in Call \ {p} : pc'[q] = pc[q]
  BY <1>1, Going DEF Label
<1>3. TypeOK'
  BY <1>1, <1>2, Faulted DEF Inv, TypeOK
<1>4. CallInv(p)'
  BY <1>1, <1>2, TopologyOf, Labels DEF CallInv
<1>5. ASSUME clean'[p] = TRUE PROVE clean[p] = TRUE /\ success'[p] = TRUE /\ CleanAt(p)'
  <2>1. clean[p] = TRUE /\ runtime' = memory
    BY <1>1, <1>5, Faulted
  <2>2. success[p] = TRUE /\ memory = Installed(topo[p])
    BY <1>1, <2>1, Undisturbed DEF CleanAt
  <2>3. CleanAt(p)'
    BY <1>1, <1>2, <2>1, <2>2, Labels DEF CleanAt
  <2>. QED
    BY <1>1, <2>1, <2>2, <2>3
<1>. QED
  BY <1>1, <1>2, <1>3, <1>4, <1>5, Faulted, CallMoves DEF Idle

LEMMA SaveInv == ASSUME Inv, NEW p \in Call, SaveToDisk(p) PROVE Inv'
<1>1. /\ pc[p] = "save" /\ Goto(p, "done") /\ (Fault(p) \/ NoFault)
      /\ disk' = memory \/ (disk' = disk /\ Fault(p))
      /\ UNCHANGED <<memory, runtime, replication, cache, topo, todo, success>>
  BY DEF SaveToDisk
<1>2. /\ pc' \in [Call -> Server \cup Label] /\ pc'[p] = "done"
      /\ \A q \in Call \ {p} : pc'[q] = pc[q]
  BY <1>1, Going DEF Label
<1>3. TypeOK'
  BY <1>1, <1>2, Faulted DEF Inv, TypeOK
<1>4. CallInv(p)'
  BY <1>1, <1>2, TopologyOf, Labels DEF CallInv
<1>5. ASSUME clean'[p] = TRUE PROVE clean[p] = TRUE /\ success'[p] = TRUE /\ CleanAt(p)'
  <2>1. clean[p] = TRUE /\ disk' = memory
    BY <1>1, <1>5, Faulted
  <2>2. success[p] = TRUE /\ memory = Installed(topo[p]) /\ runtime = memory
    BY <1>1, <2>1, Undisturbed DEF CleanAt
  <2>3. CleanAt(p)'
    BY <1>1, <1>2, <2>1, <2>2, Labels DEF CleanAt
  <2>. QED
    BY <1>1, <2>1, <2>2, <2>3
<1>. QED
  BY <1>1, <1>2, <1>3, <1>4, <1>5, Faulted, CallMoves DEF Idle

LEMMA NextInv == Inv /\ [Next]_proxysqlVars => Inv'
<1> SUFFICES ASSUME Inv, [Next]_proxysqlVars PROVE Inv'
  OBVIOUS
<1>1. ASSUME NEW p \in Call, NEW t \in Topology, Start(p, t) PROVE Inv'
  BY <1>1, StartInv
<1>2. ASSUME NEW p \in Call, Step(p) PROVE Inv'
  BY <1>2, ReadInv, RemoveStaleInv, StaleRemovedInv, PrimaryOutInv, PrimaryInInv, ReplicaOutInv,
     ReplicaInInv, ReplicationOutInv, ReplicationInInv, QueryRulesInv, LoadInv, SaveInv DEF Step
<1>3. CASE UNCHANGED proxysqlVars
  BY <1>3 DEF proxysqlVars, tables, Inv, TypeOK, CallInv, CleanInv, CleanAt, Routed, Idle
<1>. QED
  BY <1>1, <1>2, <1>3 DEF Next

LEMMA AlwaysInv == Spec => []Inv
<1>. QED
  BY InitInv, NextInv, PTL DEF Spec

-------------------------------------------------------------------------------
(* Every variable keeps its type, whatever calls overlap.                  *)
THEOREM SyncTypes == Spec => []TypeOK
<1>1. Inv => TypeOK
  BY DEF Inv
<1>. QED
  BY <1>1, AlwaysInv, PTL

(* A sync during which no statement was rejected and no other call ran     *)
(* succeeds and leaves memory, runtime and disk with the rows of its       *)
(* topology and no others (syncCluster is an exact upsert).                *)
THEOREM UpsertIsExact == Spec => []CleanSyncIsExact
<1>1. Inv => CleanSyncIsExact
  <2> SUFFICES ASSUME Inv, NEW p \in Call, Done(p), clean[p]
               PROVE  success[p] /\ {memory, runtime, disk} = {Installed(topo[p])}
    BY DEF CleanSyncIsExact
  <2>1. clean[p] = TRUE /\ pc[p] = "done"
    BY DEF Inv, TypeOK, Done
  <2>2. success[p] = TRUE /\ memory = Installed(topo[p]) /\ runtime = memory /\ disk = memory
    BY <2>1, Undisturbed DEF CleanAt
  <2>. QED
    BY <2>2
<1>. QED
  BY <1>1, AlwaysInv, PTL

(* What runs at runtime changes only in LOAD, and the LOAD of a call that  *)
(* nothing disturbed routes its whole topology (loadConfigToRuntime).      *)
THEOREM RoutingIsNeverHalf == Spec => NoHalfRouting
<1>1. ASSUME Inv, [Next]_proxysqlVars, NEW p \in Call, clean'[p], ~Idle(p), runtime' # runtime
      PROVE  runtime' = Installed(topo[p])
  <2>1. PICK q \in Call : LoadToRuntime(q)
    BY <1>1 DEF Next, Step, Start, Read, RemoveStale, StaleRemoved, PrimaryOutOfReaders,
       PrimaryIntoWriters, ReplicaOutOfWriters, ReplicaIntoReaders, ReplicationOut, ReplicationIn,
       QueryRules, SaveToDisk, tables, proxysqlVars
  <2>2. /\ pc[q] = "load" /\ (Fault(q) \/ NoFault)
        /\ runtime' = memory \/ (runtime' = runtime /\ Fault(q))
    BY <2>1 DEF LoadToRuntime
  <2>3. clean' \in [Call -> BOOLEAN] /\ clean'[p] = TRUE /\ (p # q => clean'[p] = clean[p])
    BY <1>1, <2>2, Faulted
  <2>4. clean[p] = TRUE
    BY <1>1, <2>2, <2>3, Faulted
  <2>5. \A r \in Call \ {p} : Idle(r)
    BY <1>1, <2>4 DEF Inv, CleanInv, Idle
  <2>6. p = q
    BY <2>2, <2>5 DEF Idle
  <2>7. memory = Installed(topo[p])
    BY <1>1, <2>2, <2>4, <2>6, Undisturbed DEF CleanAt
  <2>. QED
    BY <1>1, <2>2, <2>7
<1>2. Inv /\ [Next]_proxysqlVars =>
        [\A p \in Call : clean'[p] /\ ~Idle(p) /\ runtime' # runtime =>
           runtime' = Installed(topo[p])]_proxysqlVars
  BY <1>1
<1>. QED
  BY <1>2, AlwaysInv, PTL DEF Spec, NoHalfRouting

(* Why some call succeeds.  As long as nothing was rejected, either the    *)
(* pair of hostgroups is there and some call that has not failed is not    *)
(* about to insert it, or it is not there and some call has yet to insert. *)
Late == {"rules", "load", "save", "done"}

Hope(p) ==
  /\ success[p] = TRUE
  /\ replication = TRUE => pc[p] \notin {"replicationIn", "start"}
  /\ replication = FALSE => pc[p] \notin Late

HopeInv ==
  faults = 0 => (\A p \in Call : pc[p] # "done" => success[p] = TRUE) /\ \E p \in Call : Hope(p)

LEMMA HopeMoves ==
  ASSUME Inv, HopeInv, NEW p \in Call, NEW l \in Label \cup Server, Goto(p, l) \/ (l = pc[p] /\ pc' = pc),
         Fault(p) \/ (NoFault /\ UNCHANGED <<replication, success>>),
         pc[p] # "done", l \notin {"replicationIn", "start"}, l \in Late => pc[p] \in Late
  PROVE  HopeInv'
<1>1. pc'[p] = l /\ \A q \in Call \ {p} : pc'[q] = pc[q]
  BY Going
<1> SUFFICES ASSUME faults' = 0
             PROVE (\A q \in Call : pc'[q] # "done" => success'[q] = TRUE) /\ \E q \in Call : Hope(q)'
  BY DEF HopeInv
<1>2. ~Fault(p)
  BY ProxySQLAssumption DEF Inv, TypeOK, Fault
<1>3. faults = 0 /\ UNCHANGED <<replication, success>>
  BY <1>2 DEF NoFault
<1>4. \A q \in Call : pc'[q] # "done" => success'[q] = TRUE
  BY <1>1, <1>3 DEF HopeInv
<1>5. PICK q \in Call : Hope(q)
  BY <1>3 DEF HopeInv
<1>6. Hope(q)'
  BY <1>1, <1>3, <1>5 DEF Hope
<1>. QED
  BY <1>4, <1>6

LEMMA HopeReplicationOut ==
  ASSUME Inv, HopeInv, NEW p \in Call, ReplicationOut(p) PROVE HopeInv'
<1>1. /\ pc[p] = "replicas" /\ Goto(p, "replicationIn") /\ success' = success
      /\ Fault(p) \/ (NoFault /\ replication' = FALSE)
  BY DEF ReplicationOut
<1>2. pc'[p] = "replicationIn" /\ \A q \in Call \ {p} : pc'[q] = pc[q]
  BY <1>1, Going DEF Label
<1> SUFFICES ASSUME faults' = 0
             PROVE (\A q \in Call : pc'[q] # "done" => success'[q] = TRUE) /\ \E q \in Call : Hope(q)'
  BY DEF HopeInv
<1>3. faults = 0 /\ replication' = FALSE
  BY <1>1, ProxySQLAssumption DEF Inv, TypeOK, Fault, NoFault
<1>4. \A q \in Call : pc'[q] # "done" => success'[q] = TRUE
  BY <1>1, <1>2, <1>3 DEF HopeInv
<1>5. Hope(p)'
  BY <1>2, <1>3, <1>4 DEF Hope, Late
<1>. QED
  BY <1>4, <1>5

LEMMA HopeReplicationIn ==
  ASSUME Inv, HopeInv, NEW p \in Call, ReplicationIn(p) PROVE HopeInv'
<1>1. /\ pc[p] = "replicationIn" /\ (Fault(p) \/ NoFault)
      /\ \/ Goto(p, "rules") /\ replication' = TRUE /\ success' = success
         \/ /\ Goto(p, "done") /\ replication' = replication
            /\ success' = [success EXCEPT ![p] = FALSE] /\ (replication = TRUE \/ Fault(p))
  BY DEF ReplicationIn
<1> SUFFICES ASSUME faults' = 0
             PROVE (\A q \in Call : pc'[q] # "done" => success'[q] = TRUE) /\ \E q \in Call : Hope(q)'
  BY DEF HopeInv
<1>2. faults = 0 /\ ~Fault(p)
  BY <1>1, ProxySQLAssumption DEF Inv, TypeOK, Fault, NoFault
<1>3. CASE Goto(p, "rules") /\ replication' = TRUE /\ success' = success
  <2>1. pc'[p] = "rules" /\ \A q \in Call \ {p} : pc'[q] = pc[q]
    BY <1>3, Going DEF Label
  <2>2. \A q \in Call : pc'[q] # "done" => success'[q] = TRUE
    BY <1>1, <1>2, <1>3, <2>1 DEF HopeInv
  <2>3. Hope(p)'
    BY <1>3, <2>1, <2>2 DEF Hope
  <2>. QED
    BY <2>2, <2>3
<1>4. CASE /\ Goto(p, "done") /\ replication' = replication /\ replication = TRUE
           /\ success' = [success EXCEPT ![p] = FALSE]
  <2>1. /\ pc'[p] = "done"
        /\ \A q \in Call \ {p} : pc'[q] = pc[q] /\ success'[q] = success[q]
    BY <1>4, Going DEF Label, Inv, TypeOK
  <2>2. \A q \in Call : pc'[q] # "done" => success'[q] = TRUE
    BY <1>2, <2>1 DEF HopeInv
  <2>3. PICK q \in Call : Hope(q)
    BY <1>2 DEF HopeInv
  <2>4. q # p
    BY <1>1, <1>4, <2>3 DEF Hope
  <2>5. Hope(q)'
    BY <1>4, <2>1, <2>3, <2>4 DEF Hope
  <2>. QED
    BY <2>2, <2>5
<1>. QED
  BY <1>1, <1>2, <1>3, <1>4

LEMMA HopeStart ==
  ASSUME Inv, HopeInv, NEW p \in Call, NEW t \in Topology, Start(p, t) PROVE HopeInv'
<1>1. /\ pc' = [pc EXCEPT ![p] = "read"] /\ success' = [success EXCEPT ![p] = TRUE]
      /\ UNCHANGED <<replication, faults>>
  BY DEF Start, Goto, tables
<1>2. /\ pc'[p] = "read" /\ success'[p] = TRUE
      /\ \A q \in Call \ {p} : pc'[q] = pc[q] /\ success'[q] = success[q]
  BY <1>1 DEF Inv, TypeOK
<1>3. Hope(p)'
  BY <1>2 DEF Hope, Late
<1>4. faults' = 0 => \A q \in Call : pc'[q] # "done" => success'[q] = TRUE
  BY <1>1, <1>2 DEF HopeInv
<1>. QED
  BY <1>3, <1>4 DEF HopeInv

LEMMA HopeNext == Inv /\ HopeInv /\ [Next]_proxysqlVars => HopeInv'
<1> SUFFICES ASSUME Inv, HopeInv, [Next]_proxysqlVars PROVE HopeInv'
  OBVIOUS
<1>1. ASSUME NEW p \in Call, Step(p) PROVE HopeInv'
  <2>1. CASE ReplicationOut(p) \/ ReplicationIn(p)
    BY <2>1, HopeReplicationOut, HopeReplicationIn
  <2>2. CASE Read(p)
    <3>1. /\ Goto(p, "removeStale") /\ pc[p] = "read"
          /\ Fault(p) \/ (NoFault /\ UNCHANGED <<replication, success>>)
      BY <2>2 DEF Read, tables
    <3>. QED
      BY <3>1, HopeMoves DEF Label, Late
  <2>3. CASE RemoveStale(p)
    <3>1. /\ pc' = pc /\ pc[p] = "removeStale"
          /\ Fault(p) \/ (NoFault /\ UNCHANGED <<replication, success>>)
      BY <2>3 DEF RemoveStale
    <3>. QED
      BY <3>1, HopeMoves DEF Label, Late
  <2>4. CASE StaleRemoved(p)
    <3>1. /\ Goto(p, "replicas") \/ Goto(p, "primaryOut")
          /\ pc[p] = "removeStale" /\ NoFault /\ UNCHANGED <<replication, success>>
      BY <2>4 DEF StaleRemoved, NoFault, tables
    <3>. QED
      BY <3>1, HopeMoves DEF Label, Late
  <2>5. CASE PrimaryOutOfReaders(p) \/ PrimaryIntoWriters(p)
    <3>1. /\ Goto(p, "primaryIn") \/ Goto(p, "replicas")
          /\ pc[p] \in {"primaryOut", "primaryIn"}
          /\ Fault(p) \/ (NoFault /\ UNCHANGED <<replication, success>>)
      BY <2>5 DEF PrimaryOutOfReaders, PrimaryIntoWriters
    <3>. QED
      BY <3>1, HopeMoves DEF Label, Late
  <2>6. CASE ReplicaOutOfWriters(p)
    <3>1. PICK s \in todo[p] : Goto(p, s) \/ pc' = pc
      BY <2>6 DEF ReplicaOutOfWriters
    <3>2. /\ pc[p] = "replicas" /\ s \in Server
          /\ Fault(p) \/ (NoFault /\ UNCHANGED <<replication, success>>)
      BY <2>6 DEF ReplicaOutOfWriters, Inv, CallInv
    <3>3. s \notin Late /\ s \notin {"replicationIn", "start"}
      BY <3>2, Labels DEF Late
    <3>4. CASE Goto(p, s)
      BY <3>2, <3>3, <3>4, HopeMoves
    <3>5. CASE pc' = pc
      BY <3>2, <3>5, HopeMoves DEF Label, Late
    <3>. QED
      BY <3>1, <3>4, <3>5
  <2>7. CASE ReplicaIntoReaders(p)
    <3>1. /\ Goto(p, "replicas") /\ pc[p] \in Server
          /\ Fault(p) \/ (NoFault /\ UNCHANGED <<replication, success>>)
      BY <2>7 DEF ReplicaIntoReaders
    <3>. QED
      BY <3>1, HopeMoves, Labels DEF Label, Late
  <2>8. CASE QueryRules(p)
    <3>1. /\ pc[p] = "rules"
          /\ \/ Goto(p, "load") /\ NoFault /\ UNCHANGED <<replication, success>>
             \/ Goto(p, "done") /\ Fault(p)
      BY <2>8 DEF QueryRules, tables
    <3>. QED
      BY <3>1, HopeMoves DEF Label, Late
  <2>9. CASE LoadToRuntime(p) \/ SaveToDisk(p)
    <3>1. /\ Goto(p, "save") \/ Goto(p, "done")
          /\ pc[p] \in {"load", "save"}
          /\ Fault(p) \/ (NoFault /\ UNCHANGED <<replication, success>>)
      BY <2>9 DEF LoadToRuntime, SaveToDisk
    <3>. QED
      BY <3>1, HopeMoves DEF Label, Late
  <2>. QED
    BY <1>1, <2>1, <2>2, <2>3, <2>4, <2>5, <2>6, <2>7, <2>8, <2>9 DEF Step
<1>2. CASE UNCHANGED proxysqlVars
  BY <1>2 DEF proxysqlVars, tables, HopeInv, Hope
<1>. QED
  BY <1>1, <1>2, HopeStart DEF Next

(* Overlapping calls never fail each other to the last one: unless a       *)
(* statement was rejected, some syncCluster answers with success.          *)
THEOREM NotAllFail == Spec => []SomeCallSucceeds
<1>1. Init => HopeInv
  <2> SUFFICES ASSUME Init PROVE HopeInv
    OBVIOUS
  <2>1. PICK p \in Call : TRUE
    BY ProxySQLAssumption
  <2>2. Hope(p)
    BY DEF Init, Hope, Late
  <2>. QED
    BY <2>2 DEF Init, HopeInv
<1>2. Inv /\ HopeInv => SomeCallSucceeds
  BY DEF Inv, TypeOK, HopeInv, Hope, Late, SomeCallSucceeds, Done
<1>. QED
  BY <1>1, <1>2, HopeNext, AlwaysInv, PTL DEF Spec
===============================================================================
