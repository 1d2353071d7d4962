----------------------- MODULE FailoverWebhookProofs -----------------------
(***************************************************************************)
(* Proofs about FailoverWebhook, for any servers, requests, networks and   *)
(* events.  The world may start in any state of its types.                 *)
(***************************************************************************)
EXTENDS FailoverWebhook, DataLemmas

-------------------------------------------------------------------------------
(* The names of clusters.                                                  *)

Size == Cardinality(Server)

(* One step up the chain of masters, as far as it is known.                *)
Climb == [s \in Server |-> IF s \notin Known \/ seen[s].source \notin Known THEN s ELSE seen[s].source]

LEMMA SizeIsNat == Size \in Nat /\ IsFiniteSet(Server)
  BY OrchestratorAssumption, FS_CardinalityType DEF Size

LEMMA AboveIs ==
  /\ Above \in [0 .. Size -> [Server -> Server]]
  /\ Above[0] = [s \in Server |-> s]
  /\ \A n \in 1 .. Size, s \in Server : Above[n][s] = Above[n - 1][Climb[s]]
<1> DEFINE V == [Server -> Server]
           g == [f \in V |-> [s \in Server |->
                    IF s \notin Known \/ seen[s].source \notin Known THEN s ELSE f[seen[s].source]]]
           G == [n \in 1 .. Size |-> g]
           Eq(A) == A = [n \in 0 .. Size |-> [s \in Server |->
                      IF n = 0 \/ s \notin Known \/ seen[s].source \notin Known THEN s
                      ELSE A[n - 1][seen[s].source]]]
<1>1. Known \subseteq Server
  BY DEF Known
<1>2. g \in [V -> V]
  <2>1. ASSUME NEW f \in V PROVE g[f] \in V
    BY <1>1
  <2>. QED
    BY <2>1
<1>3. G \in Steps(Size, V)
  BY <1>2 DEF Steps
<1>4. [s \in Server |-> s] \in V
  OBVIOUS
<1>5. PICK A : A \in [0 .. Size -> V] /\ A[0] = [s \in Server |-> s]
               /\ \A n \in 1 .. Size : A[n] = G[n][A[n - 1]]
  <2> DEFINE a == [s \in Server |-> s]
  <2>1. a \in V /\ G \in Steps(Size, V) /\ Size \in Nat
    BY <1>3, <1>4, SizeIsNat
  <2> HIDE DEF G, V, a
  <2>2. PICK f : Iterates(f, Size, V, a, G)
    BY <2>1, Iteration
  <2>. QED
    BY <2>2 DEF a, Iterates
<1>6. \A n \in 1 .. Size : A[n] = g[A[n - 1]]
  BY <1>5, SizeIsNat
<1>7. Eq(A)
  <2> SUFFICES ASSUME NEW n \in 0 .. Size
               PROVE  A[n] = [s \in Server |->
                      IF n = 0 \/ s \notin Known \/ seen[s].source \notin Known THEN s
                      ELSE A[n - 1][seen[s].source]]
    BY <1>5
  <2>1. CASE n = 0
    BY <1>5, <2>1
  <2>2. CASE n # 0
    <3>1. n \in 1 .. Size /\ n - 1 \in 0 .. Size
      BY <2>2, SizeIsNat
    <3>2. A[n] = g[A[n - 1]] /\ A[n - 1] \in V
      BY <1>5, <1>6, <3>1
    <3>. QED
      BY <2>2, <3>2
  <2>. QED
    BY <2>1, <2>2
<1> DEFINE B == CHOOSE B : Eq(B)
<1>8. Above = B
  BY DEF Above, Size
<1>9. Eq(B)
  BY <1>7
<1> HIDE DEF B
<1>10. \A n \in 0 .. Size, s \in Server :
         Above[n][s] = IF n = 0 \/ s \notin Known \/ seen[s].source \notin Known THEN s
                       ELSE Above[n - 1][seen[s].source]
  <2> SUFFICES ASSUME NEW n \in 0 .. Size, NEW s \in Server
               PROVE  B[n][s] = IF n = 0 \/ s \notin Known \/ seen[s].source \notin Known THEN s
                                ELSE B[n - 1][seen[s].source]
    BY <1>8
  <2>1. B = [m \in 0 .. Size |-> [r \in Server |->
               IF m = 0 \/ r \notin Known \/ seen[r].source \notin Known THEN r
               ELSE B[m - 1][seen[r].source]]]
    BY <1>9
  <2>2. B[n] = [r \in Server |->
               IF n = 0 \/ r \notin Known \/ seen[r].source \notin Known THEN r
               ELSE B[n - 1][seen[r].source]]
    BY <2>1
  <2>. QED
    BY <2>2
<1>11. Above[0] = [s \in Server |-> s]
  BY <1>8, <1>9, SizeIsNat
<1>12. ASSUME NEW n \in 1 .. Size, NEW s \in Server PROVE Above[n][s] = Above[n - 1][Climb[s]]
  BY <1>10, <1>12, SizeIsNat DEF Climb
<1>13. Above \in [0 .. Size -> [Server -> Server]]
  <2> DEFINE S == {n \in Nat : n <= Size => Above[n] \in [Server -> Server]}
  <2>1. B = [n \in 0 .. Size |-> B[n]]
    BY <1>9
  <2>2. \A n \in 0 .. Size : B[n] = [s \in Server |-> B[n][s]]
    BY <1>9
  <2>3. 0 \in S
    BY <1>11
  <2>4. ASSUME NEW n \in Nat, n \in S PROVE n + 1 \in S
    <3> SUFFICES ASSUME n + 1 <= Size PROVE Above[n + 1] \in [Server -> Server]
      OBVIOUS
    <3>1. /\ n + 1 \in 1 .. Size /\ n + 1 \in 0 .. Size /\ (n + 1) - 1 = n
          /\ Above[n] \in [Server -> Server]
      BY <2>4, SizeIsNat
    <3>2. Climb \in [Server -> Server]
      BY DEF Climb, Known
    <3>3. \A s \in Server : Above[n + 1][s] \in Server
      BY <1>12, <3>1, <3>2
    <3>. QED
      BY <1>8, <2>2, <3>1, <3>3
  <2> HIDE DEF S
  <2>5. \A n \in Nat : n \in S
    BY <2>3, <2>4, Induct
  <2>. QED
    BY <1>8, <2>1, <2>5, SizeIsNat DEF S
<1>. QED
  BY <1>11, <1>12, <1>13

(* To climb m steps and then n is to climb m + n.                          *)
LEMMA AboveAbove ==
  ASSUME NEW m \in Nat, NEW n \in Nat, m + n <= Size, NEW s \in Server
  PROVE  Above[m + n][s] = Above[n][Above[m][s]]
<1> DEFINE S == {k \in Nat : k + n <= Size =>
                   \A r \in Server : Above[k + n][r] = Above[n][Above[k][r]]}
<1>1. 0 \in S
  BY AboveIs, SizeIsNat
<1>2. ASSUME NEW k \in Nat, k \in S PROVE k + 1 \in S
  <2> SUFFICES ASSUME k + 1 + n <= Size, NEW r \in Server
               PROVE  Above[k + 1 + n][r] = Above[n][Above[k + 1][r]]
    OBVIOUS
  <2>1. Climb[r] \in Server
    BY DEF Climb, Known
  <2>2. /\ k + 1 + n \in 1 .. Size /\ (k + 1 + n) - 1 = k + n
        /\ k + 1 \in 1 .. Size /\ (k + 1) - 1 = k /\ k + n <= Size
    BY SizeIsNat
  <2>3. Above[k + 1 + n][r] = Above[k + n][Climb[r]] /\ Above[k + 1][r] = Above[k][Climb[r]]
    BY <2>2, AboveIs
  <2>. QED
    BY <1>2, <2>1, <2>2, <2>3
<1> HIDE DEF S
<1>3. m \in S
  BY <1>1, <1>2, Induct
<1>. QED
  BY <1>3 DEF S

Ring(s) == {Above[n][s] : n \in 0 .. Size}

(* Who stops stays where it is; from a known server one climbs to known    *)
(* ones.                                                                   *)
LEMMA Climbing ==
  ASSUME NEW C \in SUBSET Server, \A s \in C : Climb[s] \in C,
         NEW s \in C, NEW n \in 0 .. Size
  PROVE  Above[n][s] \in C
<1> DEFINE S == {k \in Nat : k <= Size => \A r \in C : Above[k][r] \in C}
<1>1. 0 \in S
  BY AboveIs
<1>2. ASSUME NEW k \in Nat, k \in S PROVE k + 1 \in S
  <2> SUFFICES ASSUME k + 1 <= Size, NEW r \in C PROVE Above[k + 1][r] \in C
    OBVIOUS
  <2>1. k + 1 \in 1 .. Size /\ (k + 1) - 1 = k /\ k <= Size
    BY SizeIsNat
  <2>2. Above[k + 1][r] = Above[k][Climb[r]] /\ Climb[r] \in C
    BY <2>1, AboveIs
  <2>3. \A q \in C : Above[k][q] \in C
    BY <1>2, <2>1
  <2>. QED
    BY <2>2, <2>3
<1> HIDE DEF S
<1>3. n \in S
  BY <1>1, <1>2, Induct, SizeIsNat
<1>. QED
  BY <1>3, SizeIsNat DEF S

(* A climb as long as there are servers ends at a top or in a ring; all    *)
(* members of a ring have the same ring above them.                        *)
LEMMA ClimbsRepeat ==
  ASSUME NEW s \in Server
  PROVE  \E i, j \in 0 .. Size : i < j /\ Above[i][s] = Above[j][s]
<1> DEFINE f == [n \in 0 .. Size |-> Above[n][s]]
<1>1. f \in [0 .. Size -> Server]
  BY AboveIs
<1>2. IsFiniteSet(0 .. Size) /\ Cardinality(0 .. Size) = Size + 1
  BY SizeIsNat, FS_Interval
<1>3. Cardinality(Server) < Cardinality(0 .. Size)
  BY <1>2, SizeIsNat DEF Size
<1> HIDE DEF f
<1>4. PICK i, j \in 0 .. Size : i # j /\ f[i] = f[j]
  BY <1>1, <1>2, <1>3, SizeIsNat, FS_PigeonHole
<1>5. Above[i][s] = Above[j][s]
  BY <1>4 DEF f
<1>. QED
  BY <1>4, <1>5, SizeIsNat

LEMMA RingOfAll ==
  ASSUME NEW y \in Server, NEW p \in 1 .. Size, Above[p][y] = y
  PROVE  /\ Ring(y) \subseteq Server
         /\ \A z \in Ring(y) : Climb[z] \in Ring(y) /\ Ring(z) = Ring(y)
<1> DEFINE C == {Above[n][y] : n \in 0 .. p}
<1>0. Size \in Nat
  BY SizeIsNat
<1>1. /\ Size \in Nat /\ p \in Nat /\ 1 <= p /\ p <= Size
      /\ \A n \in 0 .. p : n \in Nat /\ n \in 0 .. Size
  BY <1>0
<1>2. C \subseteq Server /\ y \in C
  BY <1>1, AboveIs
<1>3. \A z \in Server : Climb[z] \in Server /\ Above[1][z] = Climb[z]
  BY <1>1, AboveIs DEF Climb, Known
<1>4. ASSUME NEW n \in 0 .. p PROVE Climb[Above[n][y]] \in C
  <2>1. CASE n < p
    <3>1. n + 1 \in 0 .. p /\ n + 1 <= Size
      BY <1>1, <2>1
    <3>2. Above[n + 1][y] = Above[1][Above[n][y]] /\ Above[n][y] \in Server
      BY <1>1, <1>2, <3>1, AboveAbove
    <3>. QED
      BY <1>3, <3>1, <3>2
  <2>2. CASE n = p
    <3>1. Above[1][y] \in C
      BY <1>1
    <3>. QED
      BY <1>3, <2>2, <3>1
  <2>. QED
    BY <1>1, <2>1, <2>2
<1>5. \A z \in C : Climb[z] \in C
  BY <1>4
<1>6. ASSUME NEW z \in C PROVE Ring(z) \subseteq C
  <2> HIDE DEF C
  <2>. QED
    BY <1>2, <1>5, Climbing DEF Ring
<1>7. ASSUME NEW n \in 0 .. p, NEW k \in 0 .. p PROVE Above[k][y] \in Ring(Above[n][y])
  <2>1. CASE n <= k
    <3>1. k - n \in Nat /\ k - n \in 0 .. Size /\ n + (k - n) = k
      BY <1>1, <2>1
    <3>2. Above[k][y] = Above[k - n][Above[n][y]]
      BY <1>1, <3>1, AboveAbove
    <3>. QED
      BY <3>1, <3>2 DEF Ring
  <2>2. CASE k < n
    <3>1. p - n \in Nat /\ n + (p - n) = p
      BY <1>1
    <3>2. y = Above[p - n][Above[n][y]]
      BY <1>1, <3>1, AboveAbove
    <3>3. (p - n) + k \in 0 .. Size /\ (p - n) + k <= Size /\ Above[n][y] \in Server
      BY <1>1, <1>2, <2>2
    <3>4. Above[(p - n) + k][Above[n][y]] = Above[k][y]
      BY <1>1, <3>1, <3>2, <3>3, AboveAbove
    <3>. QED
      BY <3>3, <3>4 DEF Ring
  <2>. QED
    BY <1>1, <2>1, <2>2
<1>8. \A z \in C : C \subseteq Ring(z)
  BY <1>7
<1> HIDE DEF C
<1>9. \A z \in C : Ring(z) = C
  BY <1>6, <1>8
<1>. QED
  BY <1>2, <1>5, <1>9

(* Whether a server stops: nobody known is above it.                       *)
AtTop(s) == s \notin Known \/ seen[s].source \notin Known

LEMMA TopStays ==
  ASSUME NEW s \in Server, AtTop(s), NEW n \in 0 .. Size
  PROVE  Above[n][s] = s
<1>1. Climb[s] = s
  BY DEF Climb, AtTop
<1>2. Above[n][s] \in {s}
  <2>. \A r \in {s} : Climb[r] \in {s}
    BY <1>1
  <2>. QED
    BY Climbing
<1>. QED
  BY <1>2

(* The name of a cluster is a member of it, and has that name: a cluster   *)
(* that was found is found again under its name.                           *)
LEMMA ClusterOfCluster ==
  ASSUME NEW s \in Known
  PROVE  Cluster(s) \in Known /\ Cluster(Cluster(s)) = Cluster(s)
<1> DEFINE top == Above[Size][s]
<1>0. Known \subseteq Server /\ Size \in Nat /\ Size \in 0 .. Size /\ 0 \in 0 .. Size
  BY SizeIsNat DEF Known
<1>1. \A r \in Known : Climb[r] \in Known
  BY <1>0 DEF Climb
<1>2. \A r \in Known, n \in 0 .. Size : Above[n][r] \in Known
  BY <1>0, <1>1, Climbing
<1>3. \A r : Cluster(r) = IF seen[Above[Size][r]].source \notin Known THEN Above[Size][r]
                          ELSE CHOOSE m \in Ring(Above[Size][r]) : TRUE
  BY DEF Cluster, Size, Ring
<1>4. CASE seen[top].source \notin Known
  <2>1. Cluster(s) = top /\ top \in Known /\ AtTop(top)
    BY <1>0, <1>2, <1>3, <1>4 DEF AtTop
  <2>2. Above[Size][top] = top
    BY <1>0, <2>1, TopStays
  <2>. QED
    BY <1>3, <1>4, <2>1, <2>2
<1>5. CASE seen[top].source \in Known
  <2>1. PICK i, j \in 0 .. Size : i < j /\ Above[i][s] = Above[j][s]
    BY <1>0, ClimbsRepeat
  <2> DEFINE y == Above[i][s]
  <2>2. /\ j - i \in 1 .. Size /\ i + (j - i) = j /\ i \in Nat /\ j - i \in Nat
        /\ Size - i \in Nat /\ Size - i \in 0 .. Size /\ i + (Size - i) = Size
        /\ j <= Size
    BY <1>0, <2>1
  <2>3. y \in Server /\ Above[j - i][y] = y
    BY <1>0, <1>2, <2>1, <2>2, AboveAbove
  <2>4. top = Above[Size - i][y]
    BY <1>0, <2>2, AboveAbove
  <2>5. top \in Ring(y)
    BY <2>2, <2>4 DEF Ring
  <2> HIDE DEF y
  <2>6. /\ Ring(y) \subseteq Server
        /\ \A z \in Ring(y) : Climb[z] \in Ring(y) /\ Ring(z) = Ring(y)
    BY <2>2, <2>3, RingOfAll
  <2>7. \A z \in Ring(y) : ~AtTop(z)
    <3> SUFFICES ASSUME NEW z \in Ring(y), AtTop(z) PROVE FALSE
      OBVIOUS
    <3>1. Ring(z) = {z}
      BY <1>0, <2>6, TopStays DEF Ring
    <3>2. top = z
      BY <2>5, <2>6, <3>1
    <3>. QED
      BY <1>0, <1>2, <1>5, <3>2 DEF AtTop
  <2> DEFINE m == Cluster(s)
  <2>8. m \in Ring(y) /\ m = CHOOSE x \in Ring(y) : TRUE
    BY <1>3, <1>5, <2>5, <2>6
  <2> HIDE DEF m
  <2>9. Above[Size][m] \in Ring(y)
    BY <1>0, <2>6, <2>8, Climbing
  <2>10. seen[Above[Size][m]].source \in Known /\ Ring(Above[Size][m]) = Ring(y)
    BY <2>6, <2>7, <2>9 DEF AtTop
  <2>11. Cluster(m) = m
    BY <1>3, <2>8, <2>10
  <2>12. m \in Known
    BY <2>7, <2>8 DEF AtTop
  <2>. QED
    BY <2>11, <2>12 DEF m
<1>. QED
  BY <1>4, <1>5

LEMMA FoundAgain ==
  ASSUME NEW x, Topology(x) # None
  PROVE  LET t == Topology(x)
         IN  /\ t.clusterId \in Known /\ Cluster(t.clusterId) = t.clusterId
             /\ Topology(t.clusterId) = t
<1>1. x \in Known
  BY DEF Topology
<1>2. Cluster(x) \in Known /\ Cluster(Cluster(x)) = Cluster(x)
  BY <1>1, ClusterOfCluster
<1>3. Topology(x).clusterId = Cluster(x)
  BY <1>1 DEF Topology
<1>4. Topology(Cluster(x)) = Topology(x)
  BY <1>1, <1>2 DEF Topology
<1>. QED
  BY <1>2, <1>3, <1>4

-------------------------------------------------------------------------------
(* The types of the world and of what operators do.                        *)

LEMMA ReadsAreViews ==
  ASSUME WorldTypeOK, NEW S
  PROVE  Read(S) \in [Server -> View \cup {None}] /\ \A s \in Known : Read(S)[s] # None
<1>1. ASSUME NEW s \in Server
      PROVE  Read(S)[s] \in View \cup {None} /\ (s \in Known => Read(S)[s] # None)
  <2>1. Read(S)[s] = IF s \in S THEN IF s \in up \/ seen[s] = None
                                       THEN [source |-> source[s], valid |-> s \in up]
                                       ELSE [seen[s] EXCEPT !.valid = FALSE]
                     ELSE seen[s]
    BY DEF Read
  <2>2. [source |-> source[s], valid |-> s \in up] \in View
    BY DEF WorldTypeOK, View
  <2>3. seen[s] # None => [seen[s] EXCEPT !.valid = FALSE] \in View
    BY DEF WorldTypeOK, View
  <2>. QED
    BY <2>1, <2>2, <2>3, OrchestratorAssumption DEF Known, WorldTypeOK
<1>2. Read(S) \in [Server -> View \cup {None}]
  BY <1>1 DEF Read
<1>. QED
  BY <1>1, <1>2 DEF Known

Calls(s, m, ok) ==
  \/ startSlave(s, ok) \/ stopSlave(s, ok) \/ resetSlave(s, ok) \/ relocateReplicas(s, m, ok)
  \/ beginMaintenance(s, ok) \/ endMaintenance(s, ok)
  \/ discoverInstance(s, ok) \/ forgetInstance(s, ok)

LEMMA EventTypes ==
  ASSUME WorldTypeOK, Event \/ Undisturbed
  PROVE  events' \in 0 .. MaxEvents /\ quiet' \in BOOLEAN
<1>1. CASE Event
  <2>1. events \in 0 .. MaxEvents /\ MaxEvents \in Nat
    BY OrchestratorAssumption DEF WorldTypeOK
  <2>2. events' \in 0 .. MaxEvents
    BY <1>1, <2>1 DEF Event
  <2>3. quiet' = FALSE
    BY <1>1 DEF Event
  <2>. QED
    BY <2>2, <2>3
<1>2. CASE Undisturbed
  BY <1>2 DEF WorldTypeOK, Undisturbed
<1>. QED
  BY <1>1, <1>2

LEMMA KnownKept ==
  ASSUME WorldTypeOK, UNCHANGED <<maintained, downtimed>>,
         seen' \in [Server -> View \cup {None}], \A s \in Known : seen'[s] # None
  PROVE  (maintained \cup downtimed \subseteq Known)'
  BY DEF WorldTypeOK, Known

LEMMA CallsKeepTypes ==
  ASSUME WorldTypeOK, NEW s, NEW m, NEW ok, Calls(s, m, ok)
  PROVE  WorldTypeOK'
<1>0. Known \subseteq Server /\ up \subseteq Server
  BY DEF Known, WorldTypeOK
<1>1. CASE startSlave(s, ok)
  <2>1. Event \/ Undisturbed
    BY <1>1 DEF startSlave, Call
  <2>2. started' \subseteq Server
    BY <1>0, <1>1 DEF startSlave, Call, WorldTypeOK
  <2>. QED
    BY <1>1, <2>1, <2>2, EventTypes DEF startSlave, WorldTypeOK, Known
<1>2. CASE stopSlave(s, ok)
  <2>1. Event \/ Undisturbed
    BY <1>2 DEF stopSlave, Call
  <2>2. started' \subseteq Server
    BY <1>0, <1>2 DEF stopSlave, Call, WorldTypeOK
  <2>. QED
    BY <1>2, <2>1, <2>2, EventTypes DEF stopSlave, WorldTypeOK, Known
<1>3. CASE resetSlave(s, ok)
  <2>1. Event \/ Undisturbed
    BY <1>3 DEF resetSlave, Call
  <2>2. source' \in [Server -> Sources]
    BY <1>0, <1>3 DEF resetSlave, Call, WorldTypeOK, Sources
  <2>. QED
    BY <1>3, <2>1, <2>2, EventTypes DEF resetSlave, WorldTypeOK, Known
<1>4. CASE relocateReplicas(s, m, ok)
  <2>1. Event \/ Undisturbed
    BY <1>4 DEF relocateReplicas, Call
  <2>2. CASE UNCHANGED <<source, started, seen>>
    BY <1>4, <2>1, <2>2, EventTypes DEF relocateReplicas, WorldTypeOK, Known
  <2>3. CASE /\ {s, m} \subseteq Known \cap up
             /\ source' = [source EXCEPT ![s] = m]
             /\ started' = started \cup {s}
             /\ seen' = [seen EXCEPT ![s] = [source |-> m, valid |-> TRUE]]
    <3>1. [source |-> m, valid |-> TRUE] \in View
      BY <1>0, <2>3 DEF View, Sources
    <3>2. seen' \in [Server -> View \cup {None}]
      BY <2>3, <3>1 DEF WorldTypeOK
    <3>3. \A r \in Known : seen'[r] # None
      BY <1>0, <2>3, <3>1, OrchestratorAssumption DEF WorldTypeOK, Known
    <3>4. source' \in [Server -> Sources] /\ started' \subseteq Server
      BY <1>0, <2>3 DEF WorldTypeOK, Sources
    <3>5. (maintained \cup downtimed \subseteq Known)'
      BY <1>4, <3>2, <3>3, KnownKept DEF relocateReplicas
    <3>. QED
      BY <1>4, <2>1, <3>2, <3>4, <3>5, EventTypes DEF relocateReplicas, WorldTypeOK
  <2>. QED
    BY <1>4, <2>2, <2>3 DEF relocateReplicas, Call
<1>5. CASE beginMaintenance(s, ok)
  <2>1. Event \/ Undisturbed
    BY <1>5 DEF beginMaintenance, Call
  <2>2. maintained' \subseteq Known /\ UNCHANGED <<seen, downtimed>>
    BY <1>5 DEF beginMaintenance, Call, WorldTypeOK
  <2>. QED
    BY <1>0, <1>5, <2>1, <2>2, EventTypes DEF beginMaintenance, WorldTypeOK, Known
<1>6. CASE endMaintenance(s, ok)
  <2>1. Event \/ Undisturbed
    BY <1>6 DEF endMaintenance, Call
  <2>2. downtimed' \subseteq downtimed /\ UNCHANGED <<seen, maintained>>
    BY <1>6 DEF endMaintenance, Call, WorldTypeOK
  <2>. QED
    BY <1>0, <1>6, <2>1, <2>2, EventTypes DEF endMaintenance, WorldTypeOK, Known
<1>7. CASE discoverInstance(s, ok)
  <2>1. Event \/ Undisturbed
    BY <1>7 DEF discoverInstance, Call
  <2>2. seen' \in {seen, Read(Around(s))}
    BY <1>7 DEF discoverInstance, Call
  <2>3. seen' \in [Server -> View \cup {None}] /\ \A r \in Known : seen'[r] # None
    BY <2>2, ReadsAreViews DEF WorldTypeOK, Known
  <2>4. (maintained \cup downtimed \subseteq Known)'
    BY <1>7, <2>3, KnownKept DEF discoverInstance
  <2>. QED
    BY <1>7, <2>1, <2>3, <2>4, EventTypes DEF discoverInstance, WorldTypeOK
<1>8. CASE forgetInstance(s, ok)
  <2>1. Event \/ Undisturbed
    BY <1>8 DEF forgetInstance, Call
  <2>2. CASE UNCHANGED <<seen, maintained, downtimed>>
    BY <1>8, <2>1, <2>2, EventTypes DEF forgetInstance, WorldTypeOK, Known
  <2>3. CASE seen' = [seen EXCEPT ![s] = None] /\ maintained' = maintained \ {s}
             /\ downtimed' = downtimed \ {s}
    <3>1. seen' \in [Server -> View \cup {None}] /\ \A r \in Server \ {s} : seen'[r] = seen[r]
      BY <2>3 DEF WorldTypeOK
    <3>2. maintained' \cup downtimed' \subseteq Known \ {s}
      BY <2>3 DEF WorldTypeOK
    <3>3. (maintained \cup downtimed \subseteq Known)'
      BY <3>1, <3>2 DEF Known
    <3>. QED
      BY <1>0, <1>8, <2>1, <2>3, <3>1, <3>3, EventTypes DEF forgetInstance, WorldTypeOK
  <2>. QED
    BY <1>8, <2>2, <2>3 DEF forgetInstance, Call
<1>. QED
  BY <1>1, <1>2, <1>3, <1>4, <1>5, <1>6, <1>7, <1>8 DEF Calls

LEMMA WorldKeepsTypes == ASSUME WorldTypeOK, WorldNext PROVE WorldTypeOK'
<1> PICK s \in Server : ServerFails(s) \/ ServerReturns(s) \/ OrchestratorReads(s)
  BY DEF WorldNext
<1>1. CASE ServerFails(s) \/ ServerReturns(s)
  BY <1>1, EventTypes DEF ServerFails, ServerReturns, WorldTypeOK, Known
<1>2. CASE OrchestratorReads(s)
  <2>1. seen' \in [Server -> View \cup {None}] /\ \A r \in Known : seen'[r] # None
    BY <1>2, ReadsAreViews DEF OrchestratorReads
  <2>2. (maintained \cup downtimed \subseteq Known)'
    BY <1>2, <2>1, KnownKept DEF OrchestratorReads
  <2>. QED
    BY <1>2, <2>1, <2>2 DEF OrchestratorReads, WorldTypeOK
<1>. QED
  BY <1>1, <1>2

LEMMA CommandKinds ==
  \A c \in Command : /\ c.kind = "setup" => c \in SetupCommand
                     /\ c.kind = "discover" => c \in DiscoverCommand
<1>1. /\ \A c \in OneCallCommand : c.kind # "setup" /\ c.kind # "discover"
      /\ \A c \in RelocateCommand : c.kind = "relocate"
      /\ \A c \in DiscoverCommand : c.kind = "discover"
      /\ \A c \in SetupCommand : c.kind = "setup"
  BY DEF OneCallCommand, OneCall, RelocateCommand, DiscoverCommand, SetupCommand
<1>. QED
  BY <1>1 DEF Command

LEMMA CommandsKeepTypes ==
  ASSUME WorldTypeOK, OperatorTypeOK, CommandStep
  PROVE  WorldTypeOK' /\ OperatorTypeOK'
<1>1. CASE OneCallRuns
  <2>1. WorldTypeOK'
    BY <1>1, CallsKeepTypes DEF OneCallRuns, Calls, StartSlave, StopSlave, ResetSlave,
       BeginMaintenance, EndMaintenance, RemoveInstance, RegisterInstance, RelocateReplica
  <2>. QED
    BY <1>1, <2>1 DEF OneCallRuns, Done, OperatorTypeOK
<1>2. CASE DiscoverNext
  <2>1. WorldTypeOK'
    BY <1>2, CallsKeepTypes DEF DiscoverNext, Calls
  <2>2. command \in DiscoverCommand
    <3>1. command \in Command /\ command.kind = "discover"
      BY <1>2 DEF DiscoverNext, Running, Idle, OperatorTypeOK
    <3>. QED
      BY <3>1, CommandKinds
  <2>3. PICK s \in command.left : command' = IF command.left = {s} THEN None
                                             ELSE [command EXCEPT !.left = @ \ {s}]
    BY <1>2 DEF DiscoverNext
  <2>4. [command EXCEPT !.left = @ \ {s}] \in DiscoverCommand
    BY <2>2 DEF DiscoverCommand
  <2>5. command' \in Command \cup {None}
    BY <2>3, <2>4 DEF Command
  <2>. QED
    BY <1>2, <2>1, <2>5 DEF DiscoverNext, OperatorTypeOK
<1>3. CASE SetupStops \/ SetupChanges \/ SetupStarts \/ SetupFails
  <2>1. command \in SetupCommand
    <3>1. command \in Command /\ command.kind = "setup"
      BY <1>3 DEF SetupStops, SetupChanges, SetupStarts, SetupFails, Setup, Running, Idle,
         OperatorTypeOK
    <3>. QED
      BY <3>1, CommandKinds
  <2>2. \A at \in {"CHANGE MASTER", "START SLAVE"} : [command EXCEPT !.at = at] \in Command
    BY <2>1 DEF Command, SetupCommand
  <2>3. command.server \in Server /\ command.master \in Server
    BY <2>1 DEF SetupCommand
  <2>4. OperatorTypeOK'
    BY <1>3, <2>2 DEF SetupStops, SetupChanges, SetupStarts, SetupFails, SetupGoes, Done,
       OperatorTypeOK
  <2>5. Event \/ Undisturbed
    BY <1>3 DEF SetupStops, SetupChanges, SetupStarts, SetupFails
  <2>6. started' \subseteq Server /\ source' \in [Server -> Sources]
    BY <1>3, <2>3 DEF SetupStops, SetupChanges, SetupStarts, SetupFails, WorldTypeOK, Sources
  <2>7. UNCHANGED <<up, seen, maintained, downtimed>>
    BY <1>3 DEF SetupStops, SetupChanges, SetupStarts, SetupFails
  <2>. QED
    BY <2>4, <2>5, <2>6, <2>7, EventTypes DEF WorldTypeOK, Known
<1>. QED
  BY <1>1, <1>2, <1>3 DEF CommandStep

LEMMA EntersKeepTypes ==
  ASSUME WorldTypeOK, OperatorTypeOK, NEW c \in Command, Enter(c)
  PROVE  WorldTypeOK' /\ OperatorTypeOK'
<1>1. WorldTypeOK'
  BY EventTypes DEF Enter, WorldTypeOK, Known
<1>. QED
  BY <1>1 DEF Enter, OperatorTypeOK

LEMMA RequestsKeepTypes ==
  ASSUME WorldTypeOK, OperatorTypeOK, NEW q \in Request, RequestStep(q)
  PROVE  WorldTypeOK' /\ OperatorTypeOK'
<1> DEFINE Record == Asking \cup [kind : {"refused"}] \cup {None}
<1>1. request \in [Request -> Record]
  BY DEF OperatorTypeOK
<1>2. ASSUME request[q] # None, request[q].kind # "refused"
      PROVE  request[q] \in Asking
  BY <1>1, <1>2
<1>3. ASSUME NEW s \in Target, NEW refused, NEW kind \in {"register", "delete", "write"},
             NEW to \in RowState, Reads(q, s, refused, kind, to)
      PROVE  WorldTypeOK' /\ OperatorTypeOK'
  <2>1. [kind |-> kind, instance |-> s, to |-> to] \in Asking
    BY InstancesAssumption DEF Asking
  <2>2. [kind |-> "refused"] \in [kind : {"refused"}]
    OBVIOUS
  <2>3. PICK r \in Record : request' = [request EXCEPT ![q] = r]
    <3>1. CASE refused
      BY <1>3, <2>2, <3>1 DEF Reads
    <3>2. CASE ~refused
      BY <1>3, <2>1, <3>2 DEF Reads
    <3>. QED
      BY <3>1, <3>2
  <2>4. request' \in [Request -> Record]
    BY <1>1, <2>3
  <2>5. WorldTypeOK'
    BY <1>3, EventTypes DEF Reads, WorldTypeOK, Known
  <2>. QED
    BY <1>3, <2>4, <2>5 DEF Reads, OperatorTypeOK
<1>4. ASSUME NEW s \in Target,
             \/ RegisterReads(q, s) \/ DeregisterReads(q, s)
             \/ SetMaintenanceReads(q, s) \/ UnsetMaintenanceReads(q, s)
      PROVE  WorldTypeOK' /\ OperatorTypeOK'
  <2>1. RowState = {"none", "plain", "maintenance"}
    BY DEF RowState
  <2>2. CASE RegisterReads(q, s)
    BY <1>3, <2>1, <2>2 DEF RegisterReads
  <2>3. CASE DeregisterReads(q, s)
    BY <1>3, <2>1, <2>3 DEF DeregisterReads
  <2>4. CASE SetMaintenanceReads(q, s)
    BY <1>3, <2>1, <2>4 DEF SetMaintenanceReads
  <2>5. CASE UnsetMaintenanceReads(q, s)
    BY <1>3, <2>1, <2>5 DEF UnsetMaintenanceReads
  <2>. QED
    BY <1>4, <2>2, <2>3, <2>4, <2>5
<1>5. ASSUME NEW kind \in {"discover", "answered", "read back", "crashed"},
             request[q] \in Asking, request' = [request EXCEPT ![q].kind = kind]
      PROVE  request' \in [Request -> Record]
  <2>1. [request[q] EXCEPT !.kind = kind] \in Asking
    BY <1>5 DEF Asking
  <2>. QED
    BY <1>1, <1>5, <2>1
<1>6. CASE Writes(q)
  <2>1. request[q] \in Asking
    BY <1>2, <1>6 DEF Writes
  <2>2. rows' \in [Server -> RowState]
    BY <1>6, <2>1 DEF Writes, OperatorTypeOK, Asking
  <2>3. request' \in [Request -> Record]
    <3>1. request' = [request EXCEPT ![q].kind = IF request[q].kind = "register" THEN "discover"
                                                 ELSE "answered"]
      BY <1>1, <1>6 DEF Writes
    <3>2. CASE request[q].kind = "register"
      BY <1>5, <2>1, <3>1, <3>2
    <3>3. CASE request[q].kind # "register"
      BY <1>5, <2>1, <3>1, <3>3
    <3>. QED
      BY <3>2, <3>3
  <2>. QED
    BY <1>6, <2>2, <2>3 DEF Writes, OperatorTypeOK, WorldTypeOK, worldVars, Known
<1>7. CASE RegisterDiscovers(q)
  <2>1. request[q] \in Asking
    BY <1>2, <1>7 DEF RegisterDiscovers
  <2>2. request' \in [Request -> Record]
    BY <1>5, <1>7, <2>1 DEF RegisterDiscovers
  <2>3. WorldTypeOK'
    BY <1>7, CallsKeepTypes DEF RegisterDiscovers, Calls
  <2>. QED
    BY <1>7, <2>2, <2>3 DEF RegisterDiscovers, OperatorTypeOK
<1>8. CASE RegisterAnswers(q)
  <2>1. request[q] \in Asking
    BY <1>2, <1>8 DEF RegisterAnswers
  <2>2. request' \in [Request -> Record]
    <3>1. CASE rows[request[q].instance] = "none"
      BY <1>5, <1>8, <2>1, <3>1 DEF RegisterAnswers
    <3>2. CASE rows[request[q].instance] # "none"
      BY <1>5, <1>8, <2>1, <3>2 DEF RegisterAnswers
    <3>. QED
      BY <3>1, <3>2
  <2>. QED
    BY <1>8, <2>2 DEF RegisterAnswers, OperatorTypeOK, WorldTypeOK, worldVars, Known
<1>. QED
  BY <1>4, <1>6, <1>7, <1>8 DEF RequestStep

LEMMA OperatorsKeepTypes ==
  ASSUME WorldTypeOK, OperatorTypeOK, OperatorNext
  PROVE  WorldTypeOK' /\ OperatorTypeOK'
<1>0. Target \subseteq Server
  BY InstancesAssumption
<1>1. ASSUME NEW s \in Target, NEW kind \in OneCall, EnterOneCall(kind, s)
      PROVE  WorldTypeOK' /\ OperatorTypeOK'
  <2>1. [kind |-> kind, server |-> s] \in Command
    BY <1>0 DEF Command, OneCallCommand
  <2>. QED
    BY <1>1, <2>1, EntersKeepTypes DEF EnterOneCall
<1>2. ASSUME NEW s \in Target, NEW m \in Server, EnterRelocate(s, m)
      PROVE  WorldTypeOK' /\ OperatorTypeOK'
  <2>1. [kind |-> "relocate", server |-> s, master |-> m] \in Command
    BY <1>0 DEF Command, RelocateCommand
  <2>. QED
    BY <1>2, <2>1, EntersKeepTypes DEF EnterRelocate
<1>3. ASSUME NEW s \in Target, NEW m \in Server, EnterSetup(s, m)
      PROVE  WorldTypeOK' /\ OperatorTypeOK'
  <2>1. [kind |-> "setup", at |-> "STOP SLAVE", server |-> s, master |-> m] \in Command
    BY <1>0 DEF Command, SetupCommand
  <2>. QED
    BY <1>3, <2>1, EntersKeepTypes DEF EnterSetup
<1>4. ASSUME NEW net \in Network, DiscoverInstances(net.base, net.prefix)
      PROVE  WorldTypeOK' /\ OperatorTypeOK'
  <2>1. PICK found \in SUBSET Server :
          Enter([kind |-> "discover", base |-> net.base, prefix |-> net.prefix, left |-> found])
    BY <1>4 DEF DiscoverInstances, WorldTypeOK
  <2>2. net.base \in Addresses /\ net.prefix \in 0 .. Width
    BY InstancesAssumption
  <2>3. [kind |-> "discover", base |-> net.base, prefix |-> net.prefix, left |-> found] \in Command
    BY <2>2 DEF Command, DiscoverCommand
  <2>. QED
    BY <2>1, <2>3, EntersKeepTypes
<1>. QED
  BY <1>1, <1>2, <1>3, <1>4, CommandsKeepTypes, RequestsKeepTypes DEF OperatorNext


-------------------------------------------------------------------
(* The scanner.                                                            *)

LEMMA Powers ==
  /\ PowerOfTwo \in [0 .. Width -> Nat \ {0}]
  /\ PowerOfTwo[0] = 1 /\ \A n \in 1 .. Width : PowerOfTwo[n] = 2 * PowerOfTwo[n - 1]
<1> DEFINE V == Nat \ {0}
           G == [n \in 1 .. Width |-> [x \in V |-> 2 * x]]
           Eq(P) == P = [n \in 0 .. Width |-> IF n = 0 THEN 1 ELSE 2 * P[n - 1]]
<1>1. Width \in Nat
  BY InstancesAssumption
<1>2. G \in Steps(Width, V)
  BY DEF Steps
<1>3. PICK f : f \in [0 .. Width -> V] /\ f[0] = 1 /\ \A n \in 1 .. Width : f[n] = G[n][f[n - 1]]
  <2>1. 1 \in V
    OBVIOUS
  <2> HIDE DEF V, G
  <2>2. PICK f : Iterates(f, Width, V, 1, G)
    BY <1>1, <1>2, <2>1, Iteration
  <2>. QED
    BY <2>2 DEF Iterates
<1>4. \A n \in 1 .. Width : f[n] = 2 * f[n - 1]
  <2> SUFFICES ASSUME NEW n \in 1 .. Width PROVE f[n] = 2 * f[n - 1]
    OBVIOUS
  <2>1. n - 1 \in 0 .. Width
    BY <1>1
  <2>. QED
    BY <1>3, <2>1
<1>5. Eq(f)
  BY <1>1, <1>3, <1>4
<1> DEFINE B == CHOOSE P : Eq(P)
<1>6. PowerOfTwo = B
  BY DEF PowerOfTwo
<1>7. Eq(B)
  BY <1>5
<1> HIDE DEF B
<1>8. /\ PowerOfTwo = [n \in 0 .. Width |-> PowerOfTwo[n]] /\ PowerOfTwo[0] = 1
      /\ \A n \in 1 .. Width : PowerOfTwo[n] = 2 * PowerOfTwo[n - 1]
  BY <1>1, <1>6, <1>7
<1>9. \A n \in Nat : n <= Width => PowerOfTwo[n] \in Nat \ {0}
  <2> DEFINE S == {n \in Nat : n <= Width => PowerOfTwo[n] \in Nat \ {0}}
  <2>1. 0 \in S
    BY <1>8
  <2>2. ASSUME NEW n \in Nat, n \in S PROVE n + 1 \in S
    <3> SUFFICES ASSUME n + 1 <= Width PROVE PowerOfTwo[n + 1] \in Nat \ {0}
      OBVIOUS
    <3>1. n + 1 \in 1 .. Width /\ (n + 1) - 1 = n /\ PowerOfTwo[n] \in Nat \ {0}
      BY <1>1, <2>2
    <3>2. PowerOfTwo[n + 1] = 2 * PowerOfTwo[n]
      BY <1>8, <3>1
    <3>. QED
      BY <3>1, <3>2
  <2> HIDE DEF S
  <2>3. \A n \in Nat : n \in S
    BY <2>1, <2>2, Induct
  <2>. QED
    BY <2>3 DEF S
<1>10. \A n \in 0 .. Width : PowerOfTwo[n] \in V
  BY <1>1, <1>9
<1> HIDE DEF V
<1>11. PowerOfTwo \in [0 .. Width -> V]
  BY <1>8, <1>10
<1>. QED
  BY <1>8, <1>11 DEF V

LEMMA PowersMultiply ==
  ASSUME NEW m \in Nat, NEW n \in Nat, m + n <= Width
  PROVE  PowerOfTwo[m + n] = PowerOfTwo[m] * PowerOfTwo[n]
<1> DEFINE S == {k \in Nat : k + n <= Width => PowerOfTwo[k + n] = PowerOfTwo[k] * PowerOfTwo[n]}
<1>0. Width \in Nat
  BY InstancesAssumption
<1>1. 0 \in S
  <2>1. n \in 0 .. Width
    BY <1>0
  <2>2. PICK y \in Nat : y = PowerOfTwo[n]
    BY <2>1, Powers
  <2>3. PowerOfTwo[0] = 1 /\ 0 + n = n /\ 1 * y = y
    BY Powers
  <2>. QED
    BY <2>2, <2>3
<1>2. ASSUME NEW k \in Nat, k \in S PROVE k + 1 \in S
  <2> SUFFICES ASSUME k + 1 + n <= Width
               PROVE  PowerOfTwo[k + 1 + n] = PowerOfTwo[k + 1] * PowerOfTwo[n]
    OBVIOUS
  <2>1. /\ k + 1 + n \in 1 .. Width /\ (k + 1 + n) - 1 = k + n
        /\ k + 1 \in 1 .. Width /\ (k + 1) - 1 = k
        /\ k \in 0 .. Width /\ n \in 0 .. Width /\ k + n <= Width
    BY <1>0
  <2>2. PowerOfTwo[k + 1 + n] = 2 * PowerOfTwo[k + n] /\ PowerOfTwo[k + 1] = 2 * PowerOfTwo[k]
    BY <2>1, Powers
  <2>3. PowerOfTwo[k + n] = PowerOfTwo[k] * PowerOfTwo[n]
    BY <1>2, <2>1
  <2>4. PICK x, y \in Nat : x = PowerOfTwo[k] /\ y = PowerOfTwo[n]
    BY <2>1, Powers
  <2>5. 2 * (x * y) = (2 * x) * y
    OBVIOUS
  <2>. QED
    <3>1. PowerOfTwo[k + 1 + n] = 2 * (x * y) /\ PowerOfTwo[k + 1] = 2 * x
      BY <2>2, <2>3, <2>4
    <3>. QED
      BY <2>4, <2>5, <3>1
<1> HIDE DEF S
<1>3. m \in S
  BY <1>1, <1>2, Induct
<1>. QED
  BY <1>3 DEF S

(* Division with a remainder.                                              *)
LEMMA Quotient ==
  ASSUME NEW a \in Nat, NEW d \in Nat \ {0}
  PROVE  /\ a \div d \in Nat /\ a - (a % d) = (a \div d) * d
         /\ \A q \in Nat : a \div d = q <=> (q * d <= a /\ a <= q * d + d - 1)
<1>1. /\ a \div d \in Nat /\ a % d \in 0 .. d - 1
      /\ a = d * (a \div d) + (a % d)
  OBVIOUS
<1>2. PICK k \in Nat : k = a \div d
  BY <1>1
<1>3. PICK r \in 0 .. d - 1 : r = a % d
  BY <1>1
<1>4. a = d * k + r
  BY <1>1, <1>2, <1>3
<1>5. d * k = k * d /\ d * k \in Nat
  BY <1>2
<1>6. ASSUME NEW q \in Nat, q * d <= a, a <= q * d + d - 1 PROVE k = q
  <2>0. q * d \in Nat
    OBVIOUS
  <2>1. CASE k < q
    <3>1. (k + 1) * d <= q * d
      BY <2>1
    <3>2. (k + 1) * d = k * d + d
      OBVIOUS
    <3>. QED
      BY <1>3, <1>4, <1>5, <1>6, <2>0, <3>1, <3>2
  <2>2. CASE q < k
    <3>1. (q + 1) * d <= k * d
      BY <2>2
    <3>2. (q + 1) * d = q * d + d
      OBVIOUS
    <3>. QED
      BY <1>3, <1>4, <1>5, <1>6, <2>0, <3>1, <3>2
  <2>. QED
    BY <2>1, <2>2
<1>7. k * d <= a /\ a <= k * d + d - 1 /\ a - r = k * d
  BY <1>3, <1>4, <1>5
<1>. QED
  BY <1>2, <1>3, <1>6, <1>7
LEMMA ScanOf ==
  ASSUME NEW base \in Addresses, NEW prefix \in 0 .. Width
  PROVE  LET size  == PowerOfTwo[Width - prefix]
             same  == {a \in Addresses : a \div size = base \div size}
             hosts == IF size = 1 THEN same ELSE same \ {Min(same), Max(same)}
             scan  == Hosts(base, prefix)
         IN  scan \subseteq hosts /\ (hosts # scan => Cardinality(scan) = MaxHosts)
<1>0. Width \in Nat /\ MaxHosts \in Nat /\ prefix \in Nat /\ prefix <= Width
  BY InstancesAssumption
<1>1. PICK d \in Nat \ {0} : d = PowerOfTwo[Width - prefix]
  <2>1. Width - prefix \in 0 .. Width
    BY <1>0
  <2>. QED
    BY <2>1, Powers
<1>2. PICK e \in Nat \ {0} : e = PowerOfTwo[prefix]
  BY Powers
<1>3. PowerOfTwo[Width] = d * e
  <2>1. (Width - prefix) + prefix = Width /\ Width - prefix \in Nat
    BY <1>0
  <2>. QED
    BY <1>0, <1>1, <1>2, <2>1, PowersMultiply
<1>4. d * e \in Nat /\ Addresses = 0 .. d * e - 1
  BY <1>3 DEF Addresses
<1>5. base \in Nat /\ base <= d * e - 1
  BY <1>4
<1>6. PICK q \in Nat : q = base \div d
  BY <1>5, Quotient
<1>7. PICK net \in Nat : net = q * d
  OBVIOUS
<1>8. net <= base /\ base <= net + d - 1 /\ base - (base % d) = net
  BY <1>5, <1>6, <1>7, Quotient
<1>9. net + d <= d * e
  <2>1. q < e
    <3>1. CASE e <= q
      <4>1. e * d <= q * d /\ e * d = d * e
        BY <3>1
      <4>. QED
        BY <1>4, <1>5, <1>7, <1>8, <4>1
    <3>. QED
      BY <3>1
  <2>2. (q + 1) * d <= e * d
    BY <2>1
  <2>3. (q + 1) * d = q * d + d /\ e * d = d * e
    OBVIOUS
  <2>. QED
    BY <1>7, <2>2, <2>3
<1> DEFINE same == {a \in Addresses : a \div d = base \div d}
<1>10. same = net .. net + d - 1
  <2>1. ASSUME NEW a \in Nat PROVE a \div d = q <=> (net <= a /\ a <= net + d - 1)
    <3>1. a \div d = q <=> (q * d <= a /\ a <= q * d + d - 1)
      BY Quotient
    <3>. QED
      BY <1>7, <3>1
  <2>2. \A a \in Addresses : a \in Nat
    BY <1>4
  <2>3. \A a \in net .. net + d - 1 : a \in Addresses /\ a \in Nat
    <3>1. PICK top \in Nat : top = d * e
      BY <1>4
    <3>. QED
      BY <1>4, <1>9, <3>1
  <2>4. ASSUME NEW a \in same PROVE a \in net .. net + d - 1
    <3>1. a \in Nat /\ a \div d = q
      BY <1>6, <2>2
    <3>2. net <= a /\ a <= net + d - 1
      BY <2>1, <3>1
    <3>. QED
      BY <3>1, <3>2
  <2>5. ASSUME NEW a \in net .. net + d - 1 PROVE a \in same
    <3>1. a \in Nat /\ a \in Addresses /\ net <= a /\ a <= net + d - 1
      BY <2>3
    <3>2. a \div d = q
      BY <2>1, <3>1
    <3>. QED
      BY <1>6, <3>1, <3>2
  <2>. QED
    BY <2>4, <2>5
<1> HIDE DEF same
<1>11. NetworkOf(base, prefix) = net /\ Broadcast(base, prefix) = net + d - 1
  BY <1>1, <1>8 DEF NetworkOf, Broadcast
<1>12. prefix = Width <=> d = 1
  <2>1. ASSUME prefix = Width PROVE d = 1
    BY <1>0, <1>1, <2>1, Powers
  <2>2. ASSUME prefix # Width PROVE d # 1
    <3>1. /\ Width - prefix \in 1 .. Width
          /\ (Width - prefix) - 1 \in 0 .. Width
      BY <1>0, <2>2
    <3>2. PICK x \in Nat : x = PowerOfTwo[(Width - prefix) - 1]
      BY <3>1, Powers
    <3>3. d = 2 * x
      BY <1>1, <3>1, <3>2, Powers
    <3>. QED
      BY <3>3
  <2>. QED
    BY <2>1, <2>2
<1>13. CASE d = 1
  <2>1. Hosts(base, prefix) = {base} /\ same = {base}
    BY <1>5, <1>8, <1>10, <1>12, <1>13 DEF Hosts
  <2>. QED
    BY <1>1, <1>13, <2>1 DEF same
<1>14. CASE d # 1
  <2>1. d >= 2
    BY <1>14
  <2>2. Min(same) = net /\ Max(same) = net + d - 1
    <3>1. \A x \in same : (\A y \in same : x <= y) => x = net
      BY <1>10
    <3>2. net \in same /\ \A y \in same : net <= y
      BY <1>10
    <3>3. \A x \in same : (\A y \in same : x >= y) => x = net + d - 1
      BY <1>10
    <3>4. net + d - 1 \in same /\ \A y \in same : net + d - 1 >= y
      BY <1>10
    <3>. QED
      BY <3>1, <3>2, <3>3, <3>4 DEF Min, Max
  <2> DEFINE n == Min({d - 2, MaxHosts})
  <2>3. n \in Nat /\ n <= d - 2 /\ (n = d - 2 \/ n = MaxHosts)
    <3>1. d - 2 \in Nat
      BY <2>1
    <3>. QED
      BY <1>0, <3>1 DEF Min
  <2>4. Hosts(base, prefix) = {net + i : i \in 1 .. n}
    <3>1. (net + d - 1) - net - 1 = d - 2
      OBVIOUS
    <3>. QED
      BY <1>11, <1>12, <1>14, <3>1 DEF Hosts
  <2> HIDE DEF n
  <2>5. Hosts(base, prefix) = net + 1 .. net + n
    <3>1. \A a \in net + 1 .. net + n : a - net \in 1 .. n /\ a = net + (a - net)
      BY <2>3
    <3>2. \A i \in 1 .. n : net + i \in net + 1 .. net + n
      BY <2>3
    <3>. QED
      BY <2>4, <3>1, <3>2
  <2>6. Cardinality(Hosts(base, prefix)) = n
    <3>1. net + 1 \in Int /\ net + n \in Int
      BY <2>3
    <3>. QED
      BY <2>3, <2>5, <3>1, FS_Interval
  <2>7. same \ {Min(same), Max(same)} = net + 1 .. net + d - 2
    BY <1>10, <2>1, <2>2
  <2>8. /\ Hosts(base, prefix) \subseteq same \ {Min(same), Max(same)}
        /\ same \ {Min(same), Max(same)} # Hosts(base, prefix)
             => Cardinality(Hosts(base, prefix)) = MaxHosts
    BY <2>3, <2>5, <2>6, <2>7
  <2>. QED
    BY <1>1, <1>14, <2>8 DEF same
<1>. QED
  BY <1>13, <1>14

-------------------------------------------------------------------------------
(* The handler.                                                            *)

WebhookInit ==
  /\ WorldTypeOK /\ quiet = FALSE
  /\ rows \in [Server -> RowState] /\ OperatorInit /\ HookInit
WebhookSpec == WebhookInit /\ [][WebhookNext]_webhookVars

(* While it is quiet a webhook is being handled, no command or request is  *)
(* under way, the watcher recovers nothing, and a mark that the handler is *)
(* about to remove is that of a server that replicates.                    *)
QuietInv ==
  quiet = TRUE =>
    /\ hook # "idle" /\ NothingUnderWay
    /\ \A s \in Server : ~At("watcher", s, "starting") /\ ~At("watcher", s, "verifying")
                         /\ ~At("watcher", s, "ending")
    /\ \A s \in Server : At("webhook", s, "ending") => Replicates(s)

Inv ==
  /\ recovery \in [Actor -> [Server -> Progress \cup {None}]]
  /\ hook = "idle" => \A s \in Server : recovery["webhook"][s] = None
  /\ QuietInv

LEMMA Begins == WebhookInit => Inv
  BY DEF WebhookInit, HookInit, Inv, QuietInv, Actor

(* What happens outside the program ends the quiet; ...                    *)
LEMMA WorldIsLoud ==
  ASSUME WorldNext
  PROVE  quiet' # TRUE
  BY DEF WorldNext, ServerFails, ServerReturns, OrchestratorReads, Event

(* ... nothing but a webhook begins it; ...                                *)
LEMMA CallsBeginNoQuiet ==
  ASSUME NEW x, NEW y, NEW ok,
         \/ startSlave(x, ok) \/ stopSlave(x, ok) \/ resetSlave(x, ok) \/ relocateReplicas(x, y, ok)
         \/ beginMaintenance(x, ok) \/ endMaintenance(x, ok)
         \/ discoverInstance(x, ok) \/ forgetInstance(x, ok)
  PROVE  quiet' = TRUE => quiet = TRUE
  BY DEF startSlave, stopSlave, resetSlave, relocateReplicas, beginMaintenance, endMaintenance,
     discoverInstance, forgetInstance, Call, Undisturbed, Event

LEMMA OperatorsBeginNoQuiet ==
  ASSUME OperatorNext
  PROVE  quiet' = TRUE => quiet = TRUE
<1>1. CASE OneCallRuns
  BY <1>1, CallsBeginNoQuiet DEF OneCallRuns, StartSlave, StopSlave, ResetSlave, BeginMaintenance,
     EndMaintenance, RemoveInstance, RegisterInstance, RelocateReplica
<1>2. CASE DiscoverNext
  BY <1>2, CallsBeginNoQuiet DEF DiscoverNext
<1>3. CASE SetupStops \/ SetupChanges \/ SetupStarts \/ SetupFails
  BY <1>3 DEF SetupStops, SetupChanges, SetupStarts, SetupFails, Undisturbed, Event
<1>4. CASE \E q \in Request : RequestStep(q)
  <2>1. PICK q \in Request : RequestStep(q)
    BY <1>4
  <2>2. CASE RegisterDiscovers(q)
    BY <2>2, CallsBeginNoQuiet DEF RegisterDiscovers
  <2>3. CASE Writes(q) \/ RegisterAnswers(q)
    BY <2>3 DEF Writes, RegisterAnswers, worldVars
  <2>. QED
    BY <2>1, <2>2, <2>3 DEF RequestStep, RegisterReads, DeregisterReads, SetMaintenanceReads,
       UnsetMaintenanceReads, Reads, Event
<1>5. CASE \/ \E s \in Target, kind \in OneCall : EnterOneCall(kind, s)
           \/ \E s \in Target, m \in Server : EnterRelocate(s, m) \/ EnterSetup(s, m)
           \/ \E net \in Network : DiscoverInstances(net.base, net.prefix)
  BY <1>5 DEF EnterOneCall, EnterRelocate, EnterSetup, DiscoverInstances, Enter, Event
<1>. QED
  BY <1>1, <1>2, <1>3, <1>4, <1>5 DEF OperatorNext, CommandStep

(* ... and operators, who are in the middle of nothing, end it.            *)
LEMMA OperatorsAreLoud ==
  ASSUME Inv, quiet = TRUE, OperatorNext
  PROVE  quiet' # TRUE
<1>1. command = None /\ \A q \in Request : request[q] # None =>
                                          request[q].kind \in {"refused", "answered"}
  BY DEF Inv, QuietInv, NothingUnderWay, Idle
<1>2. ~CommandStep
  BY <1>1 DEF CommandStep, OneCallRuns, StartSlave, StopSlave, ResetSlave, BeginMaintenance,
     EndMaintenance, RemoveInstance, RegisterInstance, RelocateReplica, DiscoverNext, SetupStops,
     SetupChanges, SetupStarts, SetupFails, Setup, Running, Idle
<1>3. CASE \E q \in Request : RequestStep(q)
  <2>1. PICK q \in Request : RequestStep(q)
    BY <1>3
  <2>2. ~Writes(q) /\ ~RegisterDiscovers(q) /\ ~RegisterAnswers(q)
    BY <1>1 DEF Writes, RegisterDiscovers, RegisterAnswers
  <2>. QED
    BY <2>1, <2>2 DEF RequestStep, RegisterReads, DeregisterReads, SetMaintenanceReads,
       UnsetMaintenanceReads, Reads, Event
<1>4. CASE \/ \E s \in Target, kind \in OneCall : EnterOneCall(kind, s)
           \/ \E s \in Target, m \in Server : EnterRelocate(s, m) \/ EnterSetup(s, m)
           \/ \E net \in Network : DiscoverInstances(net.base, net.prefix)
  BY <1>4 DEF EnterOneCall, EnterRelocate, EnterSetup, DiscoverInstances, Enter, Event
<1>. QED
  BY <1>2, <1>3, <1>4 DEF OperatorNext

(* A recovery goes on: what it learned or did keeps what was learned       *)
(* before.                                                                 *)
LEMMA RecoveryMoves ==
  ASSUME Inv, NEW a \in Actor, NEW s \in Server,
         At(a, s, "starting") \/ At(a, s, "verifying") \/ At(a, s, "ending"),
         NEW at \in {"verifying", "ending", "recovered", "failed"}, Goes(a, s, at),
         RecoveryOnly, quiet' = TRUE => quiet = TRUE,
         UNCHANGED <<up, source>>, started \subseteq started',
         quiet' = TRUE /\ at = "ending" => Replicates(s)
  PROVE  Inv'
<1>1. /\ recovery[a][s] \in Progress
      /\ \A b \in Actor, r \in Server :
           recovery'[b][r] = IF b = a /\ r = s THEN [recovery[a][s] EXCEPT !.at = at] ELSE recovery[b][r]
  BY DEF Inv, At, Goes
<1>2. recovery' \in [Actor -> [Server -> Progress \cup {None}]]
  <2>1. [recovery[a][s] EXCEPT !.at = at] \in Progress
    BY <1>1 DEF Progress
  <2>. QED
    BY <2>1 DEF Inv, Goes
<1>3. hook' = hook /\ UNCHANGED operatorVars
  BY DEF RecoveryOnly
<1>4. hook' = "idle" => \A r \in Server : recovery'["webhook"][r] = None
  <2>1. hook = "idle" => a = "watcher"
    BY DEF Inv, At, Actor
  <2>. QED
    BY <1>1, <1>3, <2>1 DEF Inv, Actor
<1>5. ASSUME quiet' = TRUE PROVE QuietInv'
  <2>1. /\ quiet = TRUE /\ QuietInv
    BY <1>5 DEF Inv
  <2>2. a = "webhook"
    BY <2>1 DEF QuietInv, Actor
  <2>3. hook' # "idle" /\ NothingUnderWay'
    BY <1>3, <2>1 DEF QuietInv, NothingUnderWay, Idle, operatorVars
  <2>4. \A r \in Server : recovery'["watcher"][r] = recovery["watcher"][r]
    BY <1>1, <2>2 DEF Actor
  <2>5. \A r \in Server : Replicates(r) => Replicates(r)'
    BY DEF Replicates
  <2>6. ASSUME NEW r \in Server, At("webhook", r, "ending")' PROVE Replicates(r)
    <3>1. CASE r = s
      BY <1>1, <1>5, <2>2, <2>6, <3>1 DEF At, Progress
    <3>2. CASE r # s
      BY <1>1, <2>1, <2>2, <2>6, <3>2 DEF At, QuietInv, Actor
    <3>. QED
      BY <3>1, <3>2
  <2>7. \A r \in Server : ~At("watcher", r, "starting")' /\ ~At("watcher", r, "verifying")'
                           /\ ~At("watcher", r, "ending")'
    BY <2>1, <2>4 DEF At, QuietInv
  <2>. QED
    BY <2>3, <2>5, <2>6, <2>7 DEF QuietInv
<1>. QED
  BY <1>2, <1>4, <1>5 DEF Inv, QuietInv

LEMMA RecoveryKeeps == ASSUME Inv, NEW a \in Actor, RecoveryStep(a) PROVE Inv'
<1>1. PICK s \in Server : RecoveryStarts(a, s) \/ RecoveryVerifies(a, s) \/ RecoveryEnds(a, s)
  BY DEF RecoveryStep
<1>2. CASE RecoveryStarts(a, s)
  <2>1. PICK ok \in BOOLEAN : startSlave(s, ok) /\ Goes(a, s, IF ok THEN "verifying" ELSE "failed")
    BY <1>2 DEF RecoveryStarts
  <2>2. UNCHANGED <<up, source>> /\ started \subseteq started'
    BY <2>1 DEF startSlave, Call
  <2>3. quiet' = TRUE => quiet = TRUE
    BY <2>1, CallsBeginNoQuiet
  <2>4. At(a, s, "starting") /\ RecoveryOnly
    BY <1>2 DEF RecoveryStarts
  <2>5. CASE ok
    BY <2>1, <2>2, <2>3, <2>4, <2>5, RecoveryMoves
  <2>6. CASE ~ok
    BY <2>1, <2>2, <2>3, <2>4, <2>6, RecoveryMoves
  <2>. QED
    BY <2>5, <2>6
<1>3. CASE RecoveryVerifies(a, s)
  <2>1. /\ At(a, s, "verifying") /\ RecoveryOnly /\ UNCHANGED <<up, source, started>>
        /\ quiet' = TRUE => quiet = TRUE
    BY <1>3 DEF RecoveryVerifies, Undisturbed, Event
  <2>2. CASE Goes(a, s, "failed")
    BY <2>1, <2>2, RecoveryMoves
  <2>3. CASE Replicates(s) /\ Goes(a, s, IF recovery[a][s].inMaintenance THEN "ending" ELSE "recovered")
    <3>1. CASE recovery[a][s].inMaintenance
      BY <2>1, <2>3, <3>1, RecoveryMoves
    <3>2. CASE ~recovery[a][s].inMaintenance
      BY <2>1, <2>3, <3>2, RecoveryMoves
    <3>. QED
      BY <3>1, <3>2
  <2>. QED
    BY <1>3, <2>2, <2>3 DEF RecoveryVerifies
<1>4. CASE RecoveryEnds(a, s)
  <2>1. PICK ok \in BOOLEAN : endMaintenance(s, ok)
    BY <1>4 DEF RecoveryEnds
  <2>2. UNCHANGED <<up, source, started>>
    BY <2>1 DEF endMaintenance
  <2>3. quiet' = TRUE => quiet = TRUE
    BY <2>1, CallsBeginNoQuiet
  <2>. QED
    BY <1>4, <2>2, <2>3, RecoveryMoves DEF RecoveryEnds
<1>. QED
  BY <1>1, <1>2, <1>3, <1>4

(* Recoveries begin with starting the replication, or have failed.         *)
LEMMA Beginnings ==
  ASSUME NEW t
  PROVE  /\ Started(t) \in [Server -> Progress \cup {None}]
         /\ \A s \in Server : Started(t)[s] = None \/ Started(t)[s].at \in {"starting", "failed"}
<1> SUFFICES ASSUME NEW s \in Server
             PROVE  /\ Started(t)[s] \in Progress \cup {None}
                    /\ Started(t)[s] = None \/ Started(t)[s].at \in {"starting", "failed"}
  BY DEF Started
<1>1. \A at \in {"starting", "failed"} :
        Stage(at, t, s) \in Progress /\ Stage(at, t, s).at = at
  BY DEF Stage, Progress
<1>2. Started(t)[s] \in {None, Stage("starting", t, s), Stage("failed", t, s)}
  BY DEF Started
<1>. QED
  BY <1>1, <1>2

(* The handler goes on.                                                    *)
LEMMA HookMoves ==
  ASSUME Inv, hook # "idle", hook' # "idle", quiet' = TRUE => quiet = TRUE,
         UNCHANGED <<up, source, started, operatorVars>>,
         \/ UNCHANGED recovery
         \/ \E t : recovery' = [recovery EXCEPT !["webhook"] = Started(t)]
  PROVE  Inv'
<1>1. CASE UNCHANGED recovery
  BY <1>1 DEF Inv, QuietInv, At, NothingUnderWay, Idle, Replicates, operatorVars
<1>2. ASSUME NEW t, recovery' = [recovery EXCEPT !["webhook"] = Started(t)]
      PROVE  Inv'
  <2>1. recovery' \in [Actor -> [Server -> Progress \cup {None}]]
    BY <1>2, Beginnings DEF Inv, Actor
  <2>2. \A s \in Server : recovery'["watcher"][s] = recovery["watcher"][s]
                           /\ recovery'["webhook"][s] = Started(t)[s]
    BY <1>2 DEF Inv, Actor
  <2>3. \A s \in Server : ~At("webhook", s, "ending")'
    BY <2>2, Beginnings DEF At
  <2>4. QuietInv'
    BY <2>2, <2>3 DEF Inv, QuietInv, At, NothingUnderWay, Idle, operatorVars
  <2>. QED
    BY <2>1, <2>4 DEF Inv
<1>. QED
  BY <1>1, <1>2

(* What a turn of the loop comes to.                                       *)
LEMMA Weighed ==
  ASSUME NEW t, Weigh(t)
  PROVE  /\ hook' # "idle"
         /\ UNCHANGED recovery \/ recovery' = [recovery EXCEPT !["webhook"] = Started(t)]
<1>1. CASE Leave(t)
  BY <1>1 DEF Leave
<1>2. CASE hook' = "waiting" /\ UNCHANGED <<recovery, outcome>>
  BY <1>2
<1>. QED
  BY <1>1, <1>2 DEF Weigh

(* The handler hands over, and awaits sync().                              *)
HandsOver == Syncs \/ TimerFires \/ SyncAnswers \/ TimerIsCleared

LEMMA HandingOver ==
  ASSUME HandsOver
  PROVE  /\ hook \in {"sync", "debouncing", "syncing"}
         /\ hook' \in {"debouncing", "syncing", "done", "abandoned"}
         /\ UNCHANGED <<topology, lastReplicaCount, stableCount, retryCount, recovery>>
         /\ NoCall /\ Undisturbed
         /\ hook = "sync" => outcome' = topology
  BY DEF HandsOver, Syncs, TimerFires, SyncAnswers, TimerIsCleared, Awaiting, HookIs, Unweighed

LEMMA HookKeeps == ASSUME Inv, HookStep \/ TimerIsCleared PROVE Inv'
<1>1. ASSUME NEW ok \in BOOLEAN, LookUp(ok) PROVE Inv'
  <2>1. /\ hook = "lookup" /\ (quiet' = TRUE => quiet = TRUE)
        /\ UNCHANGED <<up, source, started, operatorVars>>
    BY <1>1 DEF LookUp, HookIs, NoCall, Asked, Undisturbed, Event
  <2>2. CASE Replicated(topology')
    <3>1. Weigh(topology')
      BY <1>1, <2>2 DEF LookUp
    <3>. QED
      BY <2>1, <3>1, Weighed, HookMoves
  <2>3. CASE ~Replicated(topology')
    BY <1>1, <2>1, <2>3, HookMoves DEF LookUp, Unweighed
  <2>. QED
    BY <2>2, <2>3
<1>2. ASSUME NEW ok \in BOOLEAN, ListClusters(ok) PROVE Inv'
  <2>1. /\ hook = "clusters" /\ (quiet' = TRUE => quiet = TRUE)
        /\ UNCHANGED <<up, source, started, operatorVars>>
    BY <1>2 DEF ListClusters, HookIs, NoCall, Asked, Undisturbed, Event
  <2>2. CASE ok /\ Clusters # {}
    BY <1>2, <2>1, <2>2, HookMoves DEF ListClusters, Unweighed
  <2>3. CASE ~(ok /\ Clusters # {})
    <3>1. Weigh(topology)
      BY <1>2, <2>3 DEF ListClusters
    <3>. QED
      BY <2>1, <3>1, Weighed, HookMoves
  <2>. QED
    BY <2>2, <2>3
<1>3. ASSUME NEW ok \in BOOLEAN, NEW c \in unasked, Enumerate(c, ok) PROVE Inv'
  <2>1. /\ hook = "enumerate" /\ (quiet' = TRUE => quiet = TRUE)
        /\ UNCHANGED <<up, source, started, operatorVars>>
    BY <1>3 DEF Enumerate, HookIs, NoCall, Asked, Undisturbed, Event
  <2>2. CASE unasked' = {}
    <3>1. Weigh(topology')
      BY <1>3, <2>2 DEF Enumerate
    <3>. QED
      BY <2>1, <3>1, Weighed, HookMoves
  <2>3. CASE unasked' # {}
    BY <1>3, <2>1, <2>3, HookMoves DEF Enumerate, Unweighed
  <2>. QED
    BY <2>2, <2>3
<1>4. ASSUME NEW ok \in BOOLEAN, Refetch(ok) PROVE Inv'
  BY <1>4, HookMoves DEF Refetch, HookIs, NoCall, Asked, Undisturbed, Event, Unweighed
<1>5. CASE TriesAgain
  BY <1>5, HookMoves DEF TriesAgain, HookIs, NoCall, Undisturbed, Unweighed
<1>6. CASE HandsOver
  BY <1>6, HandingOver, HookMoves DEF NoCall, Undisturbed
<1>. QED
  BY <1>1, <1>2, <1>3, <1>4, <1>5, <1>6 DEF HookStep, HandsOver

LEMMA ArrivalKeeps ==
  ASSUME Inv, NEW s, NEW isSuccessful \in BOOLEAN, WebhookArrives(s, isSuccessful)
  PROVE  Inv'
<1>1. /\ hook = "idle" /\ hook' # "idle" /\ UNCHANGED <<recovery, operatorVars>>
      /\ quiet' = (NothingUnderWay /\ ~Recovering("watcher"))
  BY DEF WebhookArrives, HookIs
<1>2. ASSUME quiet' = TRUE PROVE QuietInv'
  <2>1. NothingUnderWay /\ ~Recovering("watcher")
    BY <1>1, <1>2
  <2>2. NothingUnderWay'
    BY <1>1, <2>1 DEF NothingUnderWay, Idle, operatorVars
  <2>3. \A r \in Server : /\ ~At("watcher", r, "starting")' /\ ~At("watcher", r, "verifying")'
                           /\ ~At("watcher", r, "ending")' /\ ~At("webhook", r, "ending")'
    BY <1>1, <2>1 DEF Recovering, At, Inv
  <2>. QED
    BY <1>1, <2>2, <2>3 DEF QuietInv
<1>. QED
  BY <1>1, <1>2 DEF Inv, QuietInv

(* The others: what they do is loud.                                       *)
LEMMA OthersKeep == ASSUME Inv, Others PROVE Inv'
<1>1. CASE RecoveryStep("watcher")
  BY <1>1, RecoveryKeeps DEF Actor
<1>2. ASSUME NEW c \in Server, WatcherRecovers(c) PROVE Inv'
  <2>1. /\ quiet' = FALSE /\ hook' = hook
        /\ recovery' = [recovery EXCEPT !["watcher"] = Started(Topology(c))]
    BY <1>2 DEF WatcherRecovers, Event, RecoveryOnly
  <2>2. recovery' \in [Actor -> [Server -> Progress \cup {None}]]
        /\ recovery'["webhook"] = recovery["webhook"]
    BY <2>1, Beginnings DEF Inv, Actor
  <2>. QED
    BY <2>1, <2>2 DEF Inv, QuietInv
<1>3. CASE WorldNext /\ UNCHANGED <<operatorVars, hookVars>>
  BY <1>3, WorldIsLoud DEF hookVars, Inv, QuietInv
<1>4. CASE OperatorNext /\ UNCHANGED hookVars
  <2>1. quiet' # TRUE
    BY <1>4, OperatorsBeginNoQuiet, OperatorsAreLoud
  <2>. QED
    BY <1>4, <2>1 DEF hookVars, Inv, QuietInv
<1>. QED
  BY <1>1, <1>2, <1>3, <1>4 DEF Others

LEMMA WebhookKeeps == ASSUME Inv, [WebhookNext]_webhookVars PROVE Inv'
<1>1. CASE \E s \in Successor, isSuccessful \in BOOLEAN : WebhookArrives(s, isSuccessful)
  BY <1>1, ArrivalKeeps
<1>2. CASE HookStep \/ TimerIsCleared
  BY <1>2, HookKeeps
<1>3. CASE RecoveryStep("webhook")
  BY <1>3, RecoveryKeeps DEF Actor
<1>4. CASE Others
  BY <1>4, OthersKeep
<1>5. CASE UNCHANGED webhookVars
  BY <1>5 DEF webhookVars, instanceVars, worldVars, operatorVars, hookVars, Inv, QuietInv, At,
     NothingUnderWay, Idle, Replicates
<1>. QED
  BY <1>1, <1>2, <1>3, <1>4, <1>5 DEF WebhookNext

LEMMA WebhookAlways == WebhookSpec => []Inv
  BY Begins, WebhookKeeps, PTL DEF WebhookSpec

-------------------------------------------------------------------------------
(* What was found, and what became of the marks.                           *)

(* The replicas that the handler has recovered or is about to, while it is *)
(* quiet: what was found is still the cluster, and a replica whose mark is *)
(* left does not replicate or is being worked on.                          *)
RecoveryOf(s) ==
  /\ recovery["webhook"][s] = None => s \notin replicas(topology) \/ s \notin downtimed
  /\ recovery["webhook"][s] # None => s \in Known
  /\ At("webhook", s, "starting") \/ At("webhook", s, "verifying") \/ At("webhook", s, "ending") =>
       recovery["webhook"][s].inMaintenance = TRUE
  /\ At("webhook", s, "failed") => ~Replicates(s) \/ s \notin downtimed
  /\ At("webhook", s, "recovered") => s \notin downtimed

StillFound ==
  /\ topology.primary # None
  /\ topology.clusterId \in Known /\ Cluster(topology.clusterId) = topology.clusterId
  /\ replicas(Topology(topology.clusterId)) = replicas(topology)
  /\ Topology(topology.clusterId).primary = topology.primary

MarksAccountedFor ==
  topology.primary # None =>
    \A s \in replicas(topology) :
      topology.state[s] = "maintenance" => s \in maintained \/ ~Replicates(s)

Looping == hook \in {"lookup", "clusters", "enumerate", "waiting"}

HandlerInv ==
  /\ hook = "idle" => topology = None /\ retryCount = 0
  /\ hook \in {"recover", "sync"} => topology # None
  /\ hook = "idle" \/ Looping => \A s \in Server : recovery["webhook"][s] = None
  /\ hook # "recover" => ~Recovering("webhook")
  /\ quiet = TRUE =>
       /\ Looping \/ hook = "sync" => topology = None \/ topology = Topology(topology.clusterId)
       /\ hook = "recover" => StillFound /\ \A s \in Server : RecoveryOf(s)
       /\ hook = "sync" => MarksAccountedFor

LEMMA TopologyParts ==
  ASSUME NEW x, x \in Known
  PROVE  /\ Topology(x).clusterId = Cluster(x)
         /\ replicas(Topology(x)) \subseteq Known
         /\ \A s \in replicas(Topology(x)) : Topology(x).state[s] = State(s)
  BY DEF Topology, replicas

LEMMA TopologyTypes ==
  ASSUME NEW x
  PROVE  /\ Topology(x) \in Topologies \cup {None}
         /\ x \in Known => Topology(x) # None
<1> SUFFICES ASSUME x \in Known PROVE Topology(x) \in Topologies /\ Topology(x) # None
  BY DEF Topology
<1> DEFINE members == {s \in Known : Cluster(s) = Cluster(x)}
           primary == {s \in members : seen[s].source = None}
           p == IF primary = {} THEN None ELSE CHOOSE s \in primary : TRUE
           state == [s \in members \ primary |-> State(s)]
<1>1. Topology(x) = [clusterId |-> Cluster(x), primary |-> p, state |-> state]
  BY DEF Topology
<1>2. Cluster(x) \in Server /\ p \in Sources
  BY ClusterOfCluster DEF Known, Sources
<1>3. members \ primary \in SUBSET Server
  BY DEF Known
<1>4. state \in [members \ primary -> {"online", "offline", "maintenance"}]
  BY DEF State
<1> HIDE DEF members, primary, p, state
<1>5. Topology(x) \in [clusterId : Server, primary : Sources,
                       state : [members \ primary -> {"online", "offline", "maintenance"}]]
  BY <1>1, <1>2, <1>4
<1>6. Topology(x) \in Topologies
  BY <1>3, <1>5 DEF Topologies
<1>. QED
  BY <1>6, OrchestratorAssumption

LEMMA ReplicaCounts ==
  ASSUME NEW t \in Topologies
  PROVE  /\ replicas(t) \subseteq Server
         /\ Cardinality(replicas(t)) \in 0 .. Cardinality(Server)
         /\ t.state \in [replicas(t) -> {"online", "offline", "maintenance"}]
<1>1. PICK S \in SUBSET Server : t.state \in [S -> {"online", "offline", "maintenance"}]
  BY DEF Topologies
<1>2. replicas(t) = S
  BY <1>1 DEF replicas
<1>. QED
  BY <1>1, <1>2, OrchestratorAssumption, FS_Subset, FS_CardinalityType

(* While Orchestrator reads nothing, clusters keep their members.          *)
LEMMA ClustersKept ==
  ASSUME UNCHANGED seen
  PROVE  Known' = Known /\ \A x : Cluster(x)' = Cluster(x)
<1>1. Known' = Known
  BY DEF Known
<1>2. Above' = Above
  BY <1>1 DEF Above
<1>. QED
  BY <1>1, <1>2 DEF Cluster

LEMMA TopologyKept ==
  ASSUME UNCHANGED seen, NEW x \in Known
  PROVE  /\ x \in Known' /\ replicas(Topology(x))' = replicas(Topology(x))
         /\ Topology(x)'.primary = Topology(x).primary
         /\ UNCHANGED <<maintained, downtimed>> => Topology(x)' = Topology(x)
<1>1. Known' = Known /\ \A r : Cluster(r)' = Cluster(r)
  BY ClustersKept
<1> DEFINE members == {s \in Known : Cluster(s) = Cluster(x)}
           primary == {s \in members : seen[s].source = None}
           p == IF primary = {} THEN None ELSE CHOOSE s \in primary : TRUE
<1>2. members' = members
  BY <1>1
<1>3. primary' = primary
  BY <1>2
<1> HIDE DEF members, primary
<1>4. p' = p
  BY <1>3
<1> HIDE DEF p
<1>5. /\ Topology(x) = [clusterId |-> Cluster(x), primary |-> p,
                        state |-> [s \in members \ primary |-> State(s)]]
      /\ Topology(x)' = [clusterId |-> Cluster(x), primary |-> p,
                         state |-> [s \in members \ primary |-> State(s)']]
  BY <1>1, <1>2, <1>3, <1>4 DEF Topology, members, primary, p
<1>6. ASSUME UNCHANGED <<maintained, downtimed>> PROVE \A s : State(s)' = State(s)
  BY <1>6 DEF State
<1>. QED
  BY <1>1, <1>5, <1>6 DEF replicas

LEMMA StillFoundKept ==
  ASSUME StillFound, UNCHANGED <<seen, topology>>
  PROVE  StillFound'
<1>1. topology.clusterId \in Known
  BY DEF StillFound
<1>2. Known' = Known /\ \A r : Cluster(r)' = Cluster(r)
  BY ClustersKept
<1>3. /\ replicas(Topology(topology.clusterId))' = replicas(Topology(topology.clusterId))
      /\ Topology(topology.clusterId)'.primary = Topology(topology.clusterId).primary
  BY <1>1, <1>2, TopologyKept
<1>. QED
  BY <1>2, <1>3 DEF StillFound, replicas

(* The recoveries of the handler while it is quiet.                        *)
LEMMA RecoveryKeepsMarks ==
  ASSUME Inv, WebhookTypeOK, HandlerInv, RecoveryStep("webhook")
  PROVE  HandlerInv'
<1>1. PICK s \in Server : \/ RecoveryStarts("webhook", s) \/ RecoveryVerifies("webhook", s)
                          \/ RecoveryEnds("webhook", s)
  BY DEF RecoveryStep
<1>2. hook = "recover" /\ UNCHANGED <<hook, topology>>
  <2>1. Recovering("webhook") /\ RecoveryOnly
    BY <1>1 DEF RecoveryStarts, RecoveryVerifies, RecoveryEnds, Recovering
  <2>. QED
    BY <2>1 DEF HandlerInv, RecoveryOnly
<1>3. topology # None
  BY <1>2 DEF HandlerInv
<1> SUFFICES ASSUME quiet' = TRUE
             PROVE  StillFound' /\ \A r \in Server : RecoveryOf(r)'
  BY <1>2, <1>3 DEF HandlerInv, Looping
<1>4. quiet = TRUE /\ StillFound /\ \A r \in Server : RecoveryOf(r)
  <2>1. quiet = TRUE
    BY <1>1, CallsBeginNoQuiet DEF RecoveryStarts, RecoveryVerifies, RecoveryEnds, Undisturbed, Event
  <2>. QED
    BY <1>2, <2>1 DEF HandlerInv
<1>5. UNCHANGED <<up, source, seen, maintained>> /\ downtimed' \subseteq downtimed
  BY <1>1 DEF RecoveryStarts, startSlave, RecoveryVerifies, RecoveryEnds, endMaintenance, Call
<1>6. StillFound'
  BY <1>2, <1>4, <1>5, StillFoundKept
<1>7. UNCHANGED seen /\ ~Event
  BY <1>5, <1>4 DEF Event
<1>8. ASSUME NEW r \in Server, r # s, UNCHANGED recovery["webhook"][r],
             r \in started' <=> r \in started
      PROVE  RecoveryOf(r)'
  <2>1. Replicates(r)' <=> Replicates(r)
    BY <1>5, <1>8 DEF Replicates
  <2>2. RecoveryOf(r)
    BY <1>4
  <2>. QED
    BY <1>2, <1>5, <1>8, <2>1, <2>2 DEF RecoveryOf, At, replicas, Known
<1>9. ASSUME NEW at \in {"verifying", "ending", "recovered", "failed"}, Goes("webhook", s, at),
             recovery["webhook"][s] # None
      PROVE  /\ \A r \in Server : r # s => UNCHANGED recovery["webhook"][r]
             /\ recovery'["webhook"][s] = [recovery["webhook"][s] EXCEPT !.at = at]
             /\ recovery["webhook"][s] \in Progress
  BY <1>9 DEF Inv, Goes, Actor
<1>10. ASSUME NEW at \in {"verifying", "ending", "recovered", "failed"}, Goes("webhook", s, at),
              recovery["webhook"][s] # None,
              At("webhook", s, "starting") \/ At("webhook", s, "verifying") \/ At("webhook", s, "ending"),
              at = "failed" => ~Replicates(s)',
              at = "recovered" => s \notin downtimed'
       PROVE  RecoveryOf(s)'
  <2>1. /\ recovery'["webhook"][s] = [recovery["webhook"][s] EXCEPT !.at = at]
        /\ recovery["webhook"][s] \in Progress
    BY <1>9, <1>10
  <2>2. recovery'["webhook"][s].at = at
        /\ recovery'["webhook"][s].inMaintenance = recovery["webhook"][s].inMaintenance
    BY <2>1 DEF Progress
  <2>3. recovery["webhook"][s].inMaintenance = TRUE /\ s \in Known'
    BY <1>4, <1>7, <1>10 DEF RecoveryOf, Known
  <2>4. recovery'["webhook"][s] # None
    BY <2>1, WebhookAssumption DEF Progress
  <2>. QED
    BY <1>10, <2>2, <2>3, <2>4 DEF RecoveryOf, At
<1>11. ASSUME RecoveryOf(s)', \A r \in Server : r # s => UNCHANGED recovery["webhook"][r],
              \A r \in Server : r # s => (r \in started' <=> r \in started)
       PROVE  \A r \in Server : RecoveryOf(r)'
  BY <1>8, <1>11
<1>12. CASE RecoveryStarts("webhook", s)
  <2>1. PICK ok \in BOOLEAN : startSlave(s, ok) /\ Goes("webhook", s, IF ok THEN "verifying" ELSE "failed")
    BY <1>12 DEF RecoveryStarts
  <2>2. At("webhook", s, "starting") /\ recovery["webhook"][s] # None /\ s \in Known
    BY <1>4, <1>12 DEF RecoveryStarts, At, RecoveryOf
  <2>3. \A r \in Server : r # s => (r \in started' <=> r \in started)
    BY <2>1 DEF startSlave, Call
  <2>4. CASE ok
    <3>1. Goes("webhook", s, "verifying")
      BY <2>1, <2>4
    <3>2. RecoveryOf(s)'
      BY <1>10, <2>2, <3>1
    <3>. QED
      BY <1>6, <1>9, <1>11, <2>2, <2>3, <3>1, <3>2
  <2>5. CASE ~ok
    <3>1. Goes("webhook", s, "failed")
      BY <2>1, <2>5
    <3>2. ~(s \in Known \cap up /\ source[s] # None)
      BY <1>7, <2>1, <2>5 DEF startSlave, Call
    <3>3. None \notin up
      BY OrchestratorAssumption DEF WebhookTypeOK, WorldTypeOK
    <3>4. ~Replicates(s)'
      BY <1>5, <2>2, <3>2, <3>3 DEF Replicates
    <3>5. RecoveryOf(s)'
      BY <1>10, <2>2, <3>1, <3>4
    <3>. QED
      BY <1>6, <1>9, <1>11, <2>2, <2>3, <3>1, <3>5
  <2>. QED
    BY <2>4, <2>5
<1>13. CASE RecoveryVerifies("webhook", s)
  <2>1. At("webhook", s, "verifying") /\ recovery["webhook"][s] # None /\ UNCHANGED started
        /\ recovery["webhook"][s].inMaintenance = TRUE
    BY <1>4, <1>13 DEF RecoveryVerifies, At, RecoveryOf
  <2>2. \/ Replicates(s) /\ Goes("webhook", s, "ending")
        \/ ~Replicates(s) /\ Goes("webhook", s, "failed")
    BY <1>7, <1>13, <2>1 DEF RecoveryVerifies
  <2>3. Replicates(s)' <=> Replicates(s)
    BY <1>5, <2>1 DEF Replicates
  <2>4. RecoveryOf(s)'
    BY <1>10, <2>1, <2>2, <2>3
  <2>5. \A r \in Server : r # s => UNCHANGED recovery["webhook"][r]
    BY <1>9, <2>1, <2>2
  <2>. QED
    BY <1>6, <1>11, <2>1, <2>4, <2>5
<1>14. CASE RecoveryEnds("webhook", s)
  <2>1. /\ At("webhook", s, "ending") /\ recovery["webhook"][s] # None /\ s \in Known
        /\ Goes("webhook", s, "recovered") /\ UNCHANGED started
    BY <1>4, <1>14 DEF RecoveryEnds, endMaintenance, At, RecoveryOf
  <2>2. s \notin downtimed'
    BY <1>7, <1>14, <2>1 DEF RecoveryEnds, endMaintenance, Call
  <2>3. RecoveryOf(s)'
    BY <1>10, <2>1, <2>2
  <2>. QED
    BY <1>6, <1>9, <1>11, <2>1, <2>3
<1>. QED
  BY <1>1, <1>12, <1>13, <1>14

(* The handler stays in the loop, with what was found.                     *)
LEMMA WaitingKeeps ==
  ASSUME HandlerInv, Looping, hook' \in {"lookup", "clusters", "enumerate", "waiting"},
         UNCHANGED <<seen, maintained, downtimed, recovery>>,
         quiet' = TRUE => topology' = None \/ topology' = Topology(topology'.clusterId)
  PROVE  HandlerInv'
<1>0. PICK t, id : t = topology' /\ id = t.clusterId
  OBVIOUS
<1>1. \A s \in Server : recovery["webhook"][s] = None
  BY DEF HandlerInv
<1>2. ~Recovering("webhook")'
  BY <1>1 DEF Recovering, At
<1>3. ASSUME quiet' = TRUE PROVE (topology = None \/ topology = Topology(topology.clusterId))'
  <2>1. t = None \/ t = Topology(id)
    BY <1>0, <1>3
  <2>2. CASE t # None
    <3>1. id \in Known
      BY <1>0, <2>1, <2>2, FoundAgain
    <3>2. Topology(id)' = Topology(id)
      BY <3>1, TopologyKept
    <3>. QED
      BY <1>0, <2>1, <2>2, <3>2
  <2>. QED
    BY <1>0, <2>2
<1>. QED
  BY <1>1, <1>2, <1>3 DEF HandlerInv, Looping

(* A turn of the loop, with what was found.                                *)
LEMMA WeighedKeeps ==
  ASSUME Inv, WebhookTypeOK, HandlerInv, Looping, topology' \in Topologies \cup {None},
         UNCHANGED <<seen, maintained, downtimed>>,
         quiet' = TRUE => topology' = None \/ topology' = Topology(topology'.clusterId),
         Weigh(topology')
  PROVE  HandlerInv'
<1>0. PICK t, id : t = topology' /\ id = t.clusterId
  OBVIOUS
<1>1. \A s \in Server : recovery["webhook"][s] = None
  BY DEF HandlerInv
<1>2. CASE hook' = "waiting" /\ UNCHANGED recovery
  BY <1>2, WaitingKeeps
<1>3. CASE Leave(t) /\ t = None
  <2>1. ~Recovering("webhook")' /\ hook' = "done"
    BY <1>1, <1>3 DEF Recovering, At, Leave
  <2>. QED
    BY <2>1 DEF HandlerInv, Looping
<1>4. ASSUME t # None, quiet' = TRUE
      PROVE  /\ id \in Known /\ t = Topology(id) /\ t = Topology(id)' /\ Cluster(id) = id
             /\ Known' = Known /\ Cluster(id)' = Cluster(id)
             /\ replicas(t) \subseteq Known
             /\ \A s \in replicas(t) : t.state[s] = State(s)
  <2>1. t = Topology(id)
    BY <1>0, <1>4
  <2>2. id \in Known /\ Cluster(id) = id
    BY <1>0, <1>4, <2>1, FoundAgain
  <2>3. Topology(id)' = Topology(id) /\ Known' = Known /\ Cluster(id)' = Cluster(id)
    BY <2>2, TopologyKept, ClustersKept
  <2>. QED
    BY <2>1, <2>2, <2>3, TopologyParts
<1>5. CASE Leave(t) /\ t # None /\ t.primary = None
  <2>1. UNCHANGED recovery /\ hook' = "sync"
    BY <1>5 DEF Leave
  <2>2. ~Recovering("webhook")'
    BY <1>1, <2>1 DEF Recovering, At
  <2>. QED
    BY <1>0, <1>4, <1>5, <2>1, <2>2 DEF HandlerInv, Looping, MarksAccountedFor
<1>6. CASE Leave(t) /\ t # None /\ t.primary # None
  <2>1. /\ \A s \in Server : recovery'["webhook"][s] = Started(t)[s]
        /\ hook' = IF Ailing(t) = {} THEN "sync" ELSE "recover"
    BY <1>6 DEF Leave, Inv, Actor
  <2>2. \A s \in Server : Started(t)[s] = IF s \notin replicas(t) \/ s \notin Ailing(t) THEN None
                          ELSE Stage(IF t.state[s] = "offline" THEN "failed" ELSE "starting", t, s)
    BY DEF Started
  <2>3. t \in Topologies
    BY <1>0, <1>6
  <2>4. CASE Ailing(t) = {}
    <3>1. ~Recovering("webhook")' /\ hook' = "sync"
      BY <2>1, <2>2, <2>4 DEF Recovering, At
    <3>2. MarksAccountedFor'
      BY <1>0, <2>4 DEF Ailing, MarksAccountedFor, replicas
    <3>. QED
      BY <1>0, <1>4, <1>6, <3>1, <3>2 DEF HandlerInv, Looping
  <2>5. CASE Ailing(t) # {}
    <3>1. hook' = "recover"
      BY <2>1, <2>5
    <3>2. ASSUME quiet' = TRUE PROVE StillFound'
      BY <1>0, <1>4, <1>6, <3>2 DEF StillFound, replicas
    <3>3. ASSUME quiet' = TRUE, NEW s \in Server PROVE RecoveryOf(s)'
      <4>1. CASE s \notin replicas(t)
        BY <1>0, <2>1, <2>2, <4>1 DEF RecoveryOf, At, replicas
      <4>2. CASE s \in replicas(t) /\ t.state[s] = "online"
        <5>1. Started(t)[s] = None
          BY <2>2, <4>2 DEF Ailing
        <5>2. s \notin downtimed'
          BY <1>4, <1>6, <3>3, <4>2 DEF State
        <5>. QED
          BY <2>1, <5>1, <5>2 DEF RecoveryOf, At
      <4>3. CASE s \in replicas(t) /\ t.state[s] = "offline"
        <5>1. Started(t)[s] = Stage("failed", t, s)
          BY <2>2, <4>3 DEF Ailing
        <5>2. s \notin downtimed'
          BY <1>4, <1>6, <3>3, <4>3 DEF State
        <5>3. s \in Known'
          BY <1>4, <1>6, <3>3, <4>3
        <5>. QED
          BY <2>1, <4>3, <5>1, <5>2, <5>3 DEF RecoveryOf, At, Stage
      <4>4. CASE s \in replicas(t) /\ t.state[s] = "maintenance"
        <5>1. Started(t)[s] = Stage("starting", t, s)
          BY <2>2, <4>4 DEF Ailing
        <5>2. Stage("starting", t, s) \in Progress /\ Stage("starting", t, s).at = "starting"
              /\ Stage("starting", t, s).inMaintenance = TRUE
          BY <4>4 DEF Stage, Progress
        <5>3. s \in Known' /\ Stage("starting", t, s) # None
          BY <1>4, <1>6, <3>3, <4>4, <5>2, WebhookAssumption
        <5>. QED
          BY <2>1, <5>1, <5>2, <5>3 DEF RecoveryOf, At
      <4>. QED
        BY <2>3, <4>1, <4>2, <4>3, <4>4, ReplicaCounts
    <3>. QED
      BY <1>0, <1>6, <3>1, <3>2, <3>3 DEF HandlerInv, Looping
  <2>. QED
    BY <2>4, <2>5
<1>. QED
  BY <1>0, <1>2, <1>3, <1>5, <1>6 DEF Weigh
(* All recoveries have ended, and the topology is asked for anew.          *)
LEMMA RefetchKeeps ==
  ASSUME Inv, WebhookTypeOK, HandlerInv, NEW ok \in BOOLEAN, Refetch(ok)
  PROVE  HandlerInv'
<1>0. PICK t, id : t = topology' /\ id = topology.clusterId
  OBVIOUS
<1>1. /\ hook = "recover" /\ ~Recovering("webhook") /\ hook' = "sync"
      /\ quiet' = TRUE => ok /\ quiet = TRUE
      /\ UNCHANGED <<up, source, started, seen, maintained, downtimed, recovery>>
  BY DEF Refetch, HookIs, NoCall, Asked, Undisturbed, Event, Unweighed
<1>2. t # None
  BY <1>0, <1>1 DEF Refetch, HandlerInv
<1>3. ~Recovering("webhook")'
  BY <1>1 DEF Recovering, At
<1>4. ASSUME quiet' = TRUE
      PROVE  (topology = Topology(topology.clusterId))' /\ MarksAccountedFor'
  <2>1. StillFound /\ \A s \in Server : RecoveryOf(s)
    BY <1>1, <1>4 DEF HandlerInv
  <2>2. id \in Known /\ Cluster(id) = id
    BY <1>0, <2>1 DEF StillFound
  <2>3. t = Topology(id)
    BY <1>0, <1>1, <1>4, <2>2, TopologyTypes DEF Refetch
  <2>4. t.clusterId = id
    BY <2>2, <2>3, TopologyParts
  <2>5. Topology(id)' = Topology(id)
    BY <1>1, <2>2, TopologyKept
  <2>6. ASSUME NEW s \in replicas(t), t.state[s] = "maintenance"
        PROVE  s \in maintained' \/ ~Replicates(s)'
    <3>1. s \in replicas(topology) /\ s \in Known /\ State(s) = "maintenance"
      BY <1>0, <2>1, <2>2, <2>3, <2>6, TopologyParts DEF StillFound
    <3>2. s \in maintained \cup downtimed
      BY <3>1 DEF State
    <3>3. s \in Server /\ RecoveryOf(s)
      BY <2>1, <3>1 DEF Known
    <3>4. s \in downtimed => ~Replicates(s)
      <4>1. recovery["webhook"][s] # None => recovery["webhook"][s] \in Progress
        BY <3>3 DEF Inv, Actor
      <4>2. ~At("webhook", s, "starting") /\ ~At("webhook", s, "verifying")
            /\ ~At("webhook", s, "ending")
        BY <1>1, <3>3 DEF Recovering
      <4>. QED
        BY <3>1, <3>3, <4>1, <4>2 DEF RecoveryOf, At, Progress
    <3>. QED
      BY <1>1, <3>2, <3>4 DEF Replicates
  <2>. QED
    BY <1>0, <2>3, <2>4, <2>5, <2>6 DEF MarksAccountedFor, replicas
<1>. QED
  BY <1>0, <1>1, <1>2, <1>3, <1>4 DEF HandlerInv, Looping

LEMMA HookKeepsMarks ==
  ASSUME Inv, WebhookTypeOK, HandlerInv, HookStep \/ TimerIsCleared
  PROVE  HandlerInv'
<1>1. ASSUME NEW ok \in BOOLEAN, LookUp(ok) PROVE HandlerInv'
  <2>1. /\ Looping /\ (quiet' = TRUE => ok /\ quiet = TRUE)
        /\ UNCHANGED <<seen, maintained, downtimed>>
    BY <1>1 DEF LookUp, HookIs, NoCall, Asked, Undisturbed, Event, Looping
  <2>2. topology' \in Topologies \cup {None}
    BY <1>1, TopologyTypes DEF LookUp, WebhookTypeOK
  <2>3. ASSUME quiet' = TRUE PROVE topology' = None \/ topology' = Topology(topology'.clusterId)
    BY <1>1, <2>1, <2>3, FoundAgain DEF LookUp
  <2>4. CASE Replicated(topology')
    BY <1>1, <2>1, <2>2, <2>3, <2>4, WeighedKeeps DEF LookUp
  <2>5. CASE ~Replicated(topology')
    <3>1. hook' = "clusters" /\ UNCHANGED recovery
      BY <1>1, <2>5 DEF LookUp, Unweighed
    <3>. QED
      BY <2>1, <2>3, <3>1, WaitingKeeps
  <2>. QED
    BY <2>4, <2>5
<1>2. ASSUME NEW ok \in BOOLEAN, ListClusters(ok) PROVE HandlerInv'
  <2>1. /\ Looping /\ (quiet' = TRUE => ok /\ quiet = TRUE) /\ UNCHANGED topology
        /\ UNCHANGED <<seen, maintained, downtimed>>
    BY <1>2 DEF ListClusters, HookIs, NoCall, Asked, Undisturbed, Event, Looping
  <2>2. topology' \in Topologies \cup {None}
    BY <2>1 DEF WebhookTypeOK
  <2>3. ASSUME quiet' = TRUE PROVE topology' = None \/ topology' = Topology(topology'.clusterId)
    BY <2>1, <2>3 DEF HandlerInv
  <2>4. CASE ok /\ Clusters # {}
    <3>1. hook' = "enumerate" /\ UNCHANGED recovery
      BY <1>2, <2>4 DEF ListClusters, Unweighed
    <3>. QED
      BY <2>1, <2>3, <3>1, WaitingKeeps
  <2>5. CASE ~(ok /\ Clusters # {})
    <3>1. Weigh(topology)
      BY <1>2, <2>5 DEF ListClusters
    <3>2. Weigh(topology')
      BY <2>1, <3>1
    <3>. QED
      BY <2>1, <2>2, <2>3, <3>2, WeighedKeeps
  <2>. QED
    BY <2>4, <2>5
<1>3. ASSUME NEW ok \in BOOLEAN, NEW c \in unasked, Enumerate(c, ok) PROVE HandlerInv'
  <2>1. /\ Looping /\ hook = "enumerate" /\ (quiet' = TRUE => ok /\ quiet = TRUE)
        /\ UNCHANGED <<seen, maintained, downtimed>>
    BY <1>3 DEF Enumerate, HookIs, NoCall, Asked, Undisturbed, Event, Looping
  <2>2. topology' \in Topologies \cup {None}
    BY <1>3, TopologyTypes DEF Enumerate, WebhookTypeOK
  <2>3. ASSUME quiet' = TRUE PROVE topology' = None \/ topology' = Topology(topology'.clusterId)
    <3>1. topology = None \/ topology = Topology(topology.clusterId)
      BY <2>1, <2>3 DEF HandlerInv
    <3>. QED
      BY <1>3, <3>1, FoundAgain DEF Enumerate
  <2>4. CASE unasked' = {}
    <3>1. Weigh(topology')
      BY <1>3, <2>4 DEF Enumerate
    <3>. QED
      BY <2>1, <2>2, <2>3, <3>1, WeighedKeeps
  <2>5. CASE unasked' # {}
    <3>1. hook' = "enumerate" /\ UNCHANGED recovery
      BY <1>3, <2>1, <2>5 DEF Enumerate, Unweighed
    <3>. QED
      BY <2>1, <2>3, <3>1, WaitingKeeps
  <2>. QED
    BY <2>4, <2>5
<1>4. ASSUME NEW ok \in BOOLEAN, Refetch(ok) PROVE HandlerInv'
  BY <1>4, RefetchKeeps
<1>5. CASE TriesAgain
  <2>1. /\ Looping /\ quiet' = quiet /\ UNCHANGED <<topology, recovery>>
        /\ UNCHANGED <<seen, maintained, downtimed>> /\ hook' = "lookup"
    BY <1>5 DEF TriesAgain, HookIs, NoCall, Undisturbed, Unweighed, Looping
  <2>2. ASSUME quiet' = TRUE PROVE topology' = None \/ topology' = Topology(topology'.clusterId)
    BY <2>1, <2>2 DEF HandlerInv
  <2>. QED
    BY <2>1, <2>2, WaitingKeeps
<1>6. CASE HandsOver
  <2>1. ~Recovering("webhook")'
    BY <1>6, HandingOver DEF HandlerInv, Recovering, At
  <2>. QED
    BY <1>6, <2>1, HandingOver DEF HandlerInv, Looping
<1>. QED
  BY <1>1, <1>2, <1>3, <1>4, <1>5, <1>6 DEF HookStep, HandsOver

LEMMA ArrivalKeepsMarks ==
  ASSUME HandlerInv, NEW s, NEW isSuccessful \in BOOLEAN, WebhookArrives(s, isSuccessful)
  PROVE  HandlerInv'
<1>1. /\ hook = "idle" /\ hook' \in {"lookup", "done"}
      /\ UNCHANGED <<topology, recovery, retryCount>>
  BY DEF WebhookArrives, HookIs
<1>2. ~Recovering("webhook")'
  BY <1>1 DEF HandlerInv, Recovering, At
<1>. QED
  BY <1>1, <1>2 DEF HandlerInv, Looping

(* The others are loud: nothing is claimed then of what was found.         *)
LEMMA OthersAreLoud == ASSUME Inv, Others PROVE quiet' # TRUE
<1>1. CASE RecoveryStep("watcher")
  <2>1. PICK s \in Server : \/ RecoveryStarts("watcher", s) \/ RecoveryVerifies("watcher", s)
                            \/ RecoveryEnds("watcher", s)
    BY <1>1 DEF RecoveryStep
  <2>2. \/ At("watcher", s, "starting") \/ At("watcher", s, "verifying")
        \/ At("watcher", s, "ending")
    BY <2>1 DEF RecoveryStarts, RecoveryVerifies, RecoveryEnds
  <2>3. quiet # TRUE
    BY <2>2 DEF Inv, QuietInv
  <2>. QED
    BY <2>1, <2>3, CallsBeginNoQuiet DEF RecoveryStarts, RecoveryVerifies, RecoveryEnds,
       Undisturbed, Event
<1>2. CASE \E c \in Server : WatcherRecovers(c)
  BY <1>2 DEF WatcherRecovers, Event
<1>3. CASE WorldNext
  BY <1>3, WorldIsLoud
<1>4. CASE OperatorNext
  BY <1>4, OperatorsBeginNoQuiet, OperatorsAreLoud
<1>. QED
  BY <1>1, <1>2, <1>3, <1>4 DEF Others

LEMMA OthersKeepMarks == ASSUME Inv, HandlerInv, Others PROVE HandlerInv'
<1>1. UNCHANGED <<hook, topology, retryCount>> /\ UNCHANGED recovery["webhook"]
  <2>1. CASE RecoveryStep("watcher")
    <3>1. RecoveryOnly /\ \E s \in Server : \E at : Goes("watcher", s, at)
      BY <2>1 DEF RecoveryStep, RecoveryStarts, RecoveryVerifies, RecoveryEnds
    <3>. QED
      BY <3>1 DEF RecoveryOnly, Goes, Inv, Actor
  <2>2. CASE \E c \in Server : WatcherRecovers(c)
    BY <2>2 DEF WatcherRecovers, RecoveryOnly, Inv, Actor
  <2>3. CASE UNCHANGED hookVars
    BY <2>3 DEF hookVars
  <2>. QED
    BY <2>1, <2>2, <2>3 DEF Others
<1>2. ~Recovering("webhook") => ~Recovering("webhook")'
  BY <1>1 DEF Recovering, At
<1>. QED
  BY <1>1, <1>2, OthersAreLoud DEF HandlerInv, Looping

LEMMA MarksKept ==
  ASSUME Inv, WebhookTypeOK, HandlerInv, [WebhookNext]_webhookVars
  PROVE  HandlerInv'
<1>1. CASE WebhookNext
  BY <1>1, ArrivalKeepsMarks, HookKeepsMarks, RecoveryKeepsMarks, OthersKeepMarks DEF WebhookNext
<1>2. CASE UNCHANGED webhookVars
  <2>1. /\ UNCHANGED <<up, source, started, seen, maintained, downtimed, quiet>>
        /\ UNCHANGED <<hook, topology, retryCount, recovery>>
    BY <1>2 DEF webhookVars, instanceVars, worldVars, hookVars
  <2>2. \A a \in Actor, s \in Server : \A at : At(a, s, at)' <=> At(a, s, at)
    BY <2>1 DEF At
  <2>3. Recovering("webhook")' <=> Recovering("webhook")
    BY <2>2 DEF Recovering, Actor
  <2>4. StillFound => StillFound'
    BY <2>1, StillFoundKept
  <2>5. \A s \in Server : Replicates(s)' <=> Replicates(s)
    BY <2>1 DEF Replicates
  <2>6. \A s \in Server : RecoveryOf(s) => RecoveryOf(s)'
    BY <2>1, <2>2, <2>5 DEF RecoveryOf, replicas, Known, Actor
  <2>7. topology # None /\ MarksAccountedFor /\ topology \in Topologies => MarksAccountedFor'
    BY <2>1, <2>5, ReplicaCounts DEF MarksAccountedFor, replicas
  <2>8. topology # None /\ topology = Topology(topology.clusterId)
          => (topology = Topology(topology.clusterId))'
    BY <2>1, FoundAgain, TopologyKept
  <2>. QED
    BY <2>1, <2>3, <2>4, <2>6, <2>7, <2>8 DEF HandlerInv, Looping, WebhookTypeOK
<1>. QED
  BY <1>1, <1>2

-------------------------------------------------------------------------------
(* Types.                                                                  *)

LEMMA WeighTypes ==
  ASSUME WebhookTypeOK, Looping, NEW t \in Topologies \cup {None}, Weigh(t)
  PROVE  /\ hook' \in HookStages /\ retryCount' \in 0 .. MaxTries
         /\ hook' \in {"lookup", "clusters", "enumerate", "waiting"} => retryCount' < MaxTries
         /\ lastReplicaCount' \in -1 .. Cardinality(Server) /\ stableCount' \in 0 .. retryCount'
<1>1. /\ retryCount \in Nat /\ retryCount < MaxTries /\ MaxTries \in Nat
      /\ stableCount \in 0 .. retryCount /\ lastReplicaCount \in -1 .. Cardinality(Server)
  BY WebhookAssumption DEF WebhookTypeOK, Looping
<1>2. retryCount' = retryCount + 1 /\ retryCount' \in 0 .. MaxTries
  BY <1>1 DEF Weigh
<1>3. lastReplicaCount' \in -1 .. Cardinality(Server) /\ stableCount' \in 0 .. retryCount + 1
  <2>1. CASE UNCHANGED <<lastReplicaCount, stableCount>>
    BY <1>1, <2>1
  <2>2. CASE stableCount' = stableCount + 1 /\ UNCHANGED lastReplicaCount
    BY <1>1, <2>2
  <2>3. CASE Replicated(t) /\ stableCount' = 0 /\ lastReplicaCount' = Cardinality(replicas(t))
    <3>1. Cardinality(replicas(t)) \in 0 .. Cardinality(Server) /\ Cardinality(Server) \in Nat
      BY <2>3, ReplicaCounts, SizeIsNat DEF Replicated, Size
    <3>. QED
      BY <1>1, <2>3, <3>1
  <2>4. Count(t)
    BY DEF Weigh
  <2>. QED
    BY <2>1, <2>2, <2>3, <2>4 DEF Count
<1>4. CASE (Stable(t) \/ retryCount + 1 = MaxTries) /\ Leave(t)
  <2>1. hook' \in {"done", "sync", "recover"}
    BY <1>4 DEF Leave
  <2>. QED
    BY <1>2, <1>3, <2>1 DEF HookStages
<1>5. CASE retryCount + 1 # MaxTries /\ hook' = "waiting"
  BY <1>1, <1>2, <1>3, <1>5 DEF HookStages
<1>. QED
  BY <1>4, <1>5 DEF Weigh

HookTypeOK ==
  /\ hook \in HookStages
  /\ retryCount \in 0 .. MaxTries
  /\ hook \in {"lookup", "clusters", "enumerate", "waiting"} => retryCount < MaxTries
  /\ lastReplicaCount \in -1 .. Cardinality(Server) /\ stableCount \in 0 .. retryCount

LEMMA TypesAre ==
  WebhookTypeOK <=> /\ WorldTypeOK /\ OperatorTypeOK /\ HookTypeOK
                    /\ topology \in Topologies \cup {None}
                    /\ recovery \in [Actor -> [Server -> Progress \cup {None}]]
  BY DEF WebhookTypeOK, HookTypeOK

LEMMA HookKeepsTypes ==
  ASSUME WebhookTypeOK, HookStep \/ TimerIsCleared
  PROVE  HookTypeOK' /\ topology' \in Topologies \cup {None}
<1>0. HookTypeOK /\ topology \in Topologies \cup {None}
  BY TypesAre
<1>1. ASSUME NEW hook1 \in {"clusters", "enumerate", "lookup"}, Looping, hook' = hook1, Unweighed
      PROVE  HookTypeOK'
  BY <1>0, <1>1 DEF HookTypeOK, Looping, Unweighed, HookStages
<1>2. ASSUME Looping, NEW t \in Topologies \cup {None}, Weigh(t) PROVE HookTypeOK'
  BY <1>2, WeighTypes DEF HookTypeOK
<1>3. ASSUME NEW ok \in BOOLEAN, LookUp(ok)
      PROVE  HookTypeOK' /\ topology' \in Topologies \cup {None}
  <2>1. Looping /\ topology' \in Topologies \cup {None}
    BY <1>0, <1>3, TopologyTypes DEF LookUp, HookIs, Looping
  <2>. QED
    BY <1>1, <1>2, <1>3, <2>1 DEF LookUp
<1>4. ASSUME NEW ok \in BOOLEAN, ListClusters(ok)
      PROVE  HookTypeOK' /\ topology' \in Topologies \cup {None}
  <2>1. Looping /\ topology' = topology
    BY <1>4 DEF ListClusters, HookIs, Looping
  <2>. QED
    BY <1>0, <1>1, <1>2, <1>4, <2>1 DEF ListClusters
<1>5. ASSUME NEW ok \in BOOLEAN, NEW c \in unasked, Enumerate(c, ok)
      PROVE  HookTypeOK' /\ topology' \in Topologies \cup {None}
  <2>1. Looping /\ hook = "enumerate" /\ topology' \in Topologies \cup {None}
    BY <1>0, <1>5, TopologyTypes DEF Enumerate, HookIs, Looping
  <2>. QED
    BY <1>1, <1>2, <1>5, <2>1 DEF Enumerate
<1>6. ASSUME NEW ok \in BOOLEAN, Refetch(ok)
      PROVE  HookTypeOK' /\ topology' \in Topologies \cup {None}
  BY <1>0, <1>6, TopologyTypes DEF Refetch, HookIs, Unweighed, HookTypeOK, HookStages
<1>7. ASSUME TriesAgain
      PROVE  HookTypeOK' /\ topology' \in Topologies \cup {None}
  BY <1>0, <1>1, <1>7 DEF TriesAgain, HookIs, Looping
<1>8. ASSUME HandsOver
      PROVE  HookTypeOK' /\ topology' \in Topologies \cup {None}
  BY <1>0, <1>8, HandingOver DEF HookTypeOK, HookStages
<1>. QED
  BY <1>3, <1>4, <1>5, <1>6, <1>7, <1>8 DEF HookStep, HandsOver

LEMMA QuietWorldTypes ==
  ASSUME WorldTypeOK, UNCHANGED <<up, source, started, seen, maintained, downtimed>>,
         Event \/ Undisturbed
  PROVE  WorldTypeOK'
  BY EventTypes DEF WorldTypeOK, Known

LEMMA RecoveryKeepsTypes ==
  ASSUME WebhookTypeOK, NEW a \in Actor, RecoveryStep(a)
  PROVE  WorldTypeOK' /\ RecoveryOnly
<1>1. PICK s \in Server : RecoveryStarts(a, s) \/ RecoveryVerifies(a, s) \/ RecoveryEnds(a, s)
  BY DEF RecoveryStep
<1>2. CASE RecoveryStarts(a, s) \/ RecoveryEnds(a, s)
  BY <1>2, TypesAre, CallsKeepTypes DEF RecoveryStarts, RecoveryEnds, Calls
<1>3. CASE RecoveryVerifies(a, s)
  BY <1>3, TypesAre, QuietWorldTypes DEF RecoveryVerifies
<1>. QED
  BY <1>1, <1>2, <1>3

LEMMA TypesKept ==
  ASSUME Inv, WebhookTypeOK, HandlerInv, [WebhookNext]_webhookVars
  PROVE  WebhookTypeOK'
<1>0. /\ WorldTypeOK /\ OperatorTypeOK /\ HookTypeOK /\ topology \in Topologies \cup {None}
  BY TypesAre
<1>1. recovery' \in [Actor -> [Server -> Progress \cup {None}]]
  BY WebhookKeeps DEF Inv
<1>2. CASE \E s \in Successor, isSuccessful \in BOOLEAN : WebhookArrives(s, isSuccessful)
  <2>1. PICK s \in Successor, isSuccessful \in BOOLEAN : WebhookArrives(s, isSuccessful)
    BY <1>2
  <2>2. WorldTypeOK' /\ OperatorTypeOK'
    BY <1>0, <2>1 DEF WebhookArrives, WorldTypeOK, OperatorTypeOK, operatorVars, Known,
       NothingUnderWay, Idle
  <2>3. HookTypeOK' /\ topology' \in Topologies \cup {None}
    <3>1. hook = "idle" /\ retryCount = 0
      BY <2>1 DEF WebhookArrives, HookIs, HandlerInv
    <3>. QED
      BY <1>0, <2>1, <3>1, WebhookAssumption DEF WebhookArrives, HookTypeOK, HookStages
  <2>. QED
    BY <1>1, <2>2, <2>3, TypesAre DEF WebhookTypeOK, HookTypeOK
<1>3. CASE HookStep \/ TimerIsCleared
  <2>1. NoCall /\ (Event \/ Undisturbed)
    BY <1>3, HandingOver DEF HookStep, HandsOver, LookUp, ListClusters, Enumerate, Refetch,
       TriesAgain, Asked
  <2>2. WorldTypeOK' /\ OperatorTypeOK'
    BY <1>0, <2>1, QuietWorldTypes DEF NoCall, operatorVars, OperatorTypeOK
  <2>. QED
    BY <1>1, <1>3, <2>2, HookKeepsTypes DEF WebhookTypeOK, HookTypeOK
<1>4. ASSUME NEW a \in Actor, RecoveryStep(a) PROVE WebhookTypeOK'
  <2>1. WorldTypeOK' /\ RecoveryOnly
    BY <1>4, RecoveryKeepsTypes
  <2>. QED
    BY <1>0, <1>1, <2>1 DEF RecoveryOnly, operatorVars, OperatorTypeOK, HookTypeOK, WebhookTypeOK
<1>5. CASE Others
  <2>1. CASE RecoveryStep("watcher")
    BY <1>4, <2>1 DEF Actor
  <2>2. CASE \E c \in Server : WatcherRecovers(c)
    <3>1. RecoveryOnly /\ WorldTypeOK'
      BY <1>0, <2>2, QuietWorldTypes DEF WatcherRecovers
    <3>. QED
      BY <1>0, <1>1, <3>1 DEF RecoveryOnly, operatorVars, OperatorTypeOK, HookTypeOK, WebhookTypeOK
  <2>3. CASE UNCHANGED hookVars /\ WorldTypeOK' /\ OperatorTypeOK'
    BY <1>0, <1>1, <2>3 DEF hookVars, HookTypeOK, WebhookTypeOK
  <2>4. CASE WorldNext /\ UNCHANGED <<operatorVars, hookVars>>
    <3>1. WorldTypeOK' /\ OperatorTypeOK'
      BY <1>0, <2>4, WorldKeepsTypes DEF operatorVars, OperatorTypeOK
    <3>. QED
      BY <2>3, <2>4, <3>1
  <2>5. CASE OperatorNext /\ UNCHANGED hookVars
    BY <1>0, <2>3, <2>5, OperatorsKeepTypes
  <2>. QED
    BY <1>5, <2>1, <2>2, <2>4, <2>5 DEF Others
<1>6. CASE UNCHANGED webhookVars
  BY <1>0, <1>1, <1>6 DEF webhookVars, instanceVars, worldVars, operatorVars, hookVars, WorldTypeOK,
     OperatorTypeOK, HookTypeOK, WebhookTypeOK, Known
<1>. QED
  BY <1>2, <1>3, <1>4, <1>5, <1>6 DEF WebhookNext, Actor

LEMMA HandlerBegins == WebhookInit => WebhookTypeOK /\ HandlerInv
<1> SUFFICES ASSUME WebhookInit PROVE WebhookTypeOK /\ HandlerInv
  OBVIOUS
<1>1. recovery = [a \in Actor |-> [s \in Server |-> None]]
  BY DEF WebhookInit, HookInit
<1>2. OperatorTypeOK
  BY DEF WebhookInit, OperatorInit, OperatorTypeOK
<1>3. HookTypeOK
  BY SizeIsNat, WebhookAssumption DEF WebhookInit, HookInit, HookTypeOK, HookStages, Size
<1>4. WebhookTypeOK
  BY <1>1, <1>2, <1>3, TypesAre DEF WebhookInit, HookInit
<1>5. ~Recovering("webhook")
  BY <1>1 DEF Recovering, At, Actor
<1>6. HandlerInv
  BY <1>1, <1>5 DEF WebhookInit, HookInit, HandlerInv, Looping, Actor
<1>. QED
  BY <1>4, <1>6

LEMMA HandlerAlways == WebhookSpec => [](Inv /\ WebhookTypeOK /\ HandlerInv)
<1>1. WebhookInit => Inv /\ WebhookTypeOK /\ HandlerInv
  BY Begins, HandlerBegins
<1>2. Inv /\ WebhookTypeOK /\ HandlerInv /\ [WebhookNext]_webhookVars =>
        (Inv /\ WebhookTypeOK /\ HandlerInv)'
  BY WebhookKeeps, TypesKept, MarksKept
<1>. QED
  BY <1>1, <1>2, PTL DEF WebhookSpec

(* A failover's downtime outlives no recovery that worked: when the        *)
(* topology is handed to the coordinator after a handling in which nothing *)
(* but the handler did anything, a replica still shown as marked is one    *)
(* that does not replicate or that an operator has marked; and the state   *)
(* keeps its types, the counters of the loop (webhooks.ts) their bounds.   *)
THEOREM DowntimesEnd == WebhookSpec => []DowntimeEndsWithRecovery
<1>1. Inv /\ WebhookTypeOK /\ HandlerInv => DowntimeEndsWithRecovery
  <2> SUFFICES ASSUME WebhookTypeOK, HandlerInv, hook = "sync", quiet
               PROVE  MarksAccountedFor
    BY DEF DowntimeEndsWithRecovery, MarksAccountedFor
  <2>1. quiet = TRUE
    BY DEF WebhookTypeOK, WorldTypeOK
  <2>. QED
    BY <2>1 DEF HandlerInv
<1>. QED
  BY <1>1, HandlerAlways, PTL

(* What the handler of webhooks.ts hands to the coordinator after such a   *)
(* quiet handling is what Orchestrator would answer at that moment.        *)
THEOREM QuietSyncsAreCurrent == WebhookSpec => QuietSyncIsCurrent
<1>1. ASSUME Inv, WebhookTypeOK, HandlerInv, [WebhookNext]_webhookVars,
             hook = "sync", hook' # "sync", quiet
      PROVE  outcome' = Topology(topology.clusterId)
  <2>1. quiet = TRUE
    BY <1>1 DEF WebhookTypeOK, WorldTypeOK
  <2>2. topology = Topology(topology.clusterId)
    BY <1>1, <2>1 DEF HandlerInv
  <2>3. CASE HookStep \/ TimerIsCleared
    BY <1>1, <2>2, <2>3, HandingOver DEF HookStep, HandsOver, LookUp, ListClusters, Enumerate,
       Refetch, TriesAgain, HookIs
  <2>4. ~(\E s \in Successor, isSuccessful \in BOOLEAN : WebhookArrives(s, isSuccessful))
    BY <1>1 DEF WebhookArrives, HookIs
  <2>5. ~RecoveryStep("webhook")
    BY <1>1 DEF RecoveryStep, RecoveryStarts, RecoveryVerifies, RecoveryEnds, RecoveryOnly
  <2>6. ~Others
    BY <1>1 DEF Others, RecoveryStep, RecoveryStarts, RecoveryVerifies, RecoveryEnds, RecoveryOnly,
       WatcherRecovers, hookVars
  <2>7. ~UNCHANGED webhookVars
    BY <1>1 DEF webhookVars, hookVars
  <2>. QED
    BY <1>1, <2>3, <2>4, <2>5, <2>6, <2>7 DEF WebhookNext
<1>2. Inv /\ WebhookTypeOK /\ HandlerInv /\ [WebhookNext]_webhookVars =>
        [hook = "sync" /\ hook' # "sync" /\ quiet => outcome' = Topology(topology.clusterId)]_webhookVars
  BY <1>1
<1>. QED
  BY <1>2, HandlerAlways, PTL DEF WebhookSpec, QuietSyncIsCurrent

(* While nothing but the handler of a webhook does anything, a mark that   *)
(* it removes is that of a replica that runs: RecoveryVerifies has seen it *)
(* replicate, and no step since has stopped it (replica-recovery.ts).      *)
THEOREM RunningReplicasAreFreed == WebhookSpec => OnlyReplicasAreFreed
<1>1. ASSUME Inv, WebhookNext, quiet = TRUE, quiet' = TRUE,
             NEW s \in downtimed, s \notin downtimed'
      PROVE  Replicates(s)
  <2>1. CASE \E x \in Successor, isSuccessful \in BOOLEAN : WebhookArrives(x, isSuccessful)
    BY <1>1, <2>1 DEF WebhookArrives
  <2>2. CASE HookStep \/ TimerIsCleared
    BY <1>1, <2>2, HandingOver DEF HookStep, HandsOver, LookUp, ListClusters, Enumerate, Refetch,
       TriesAgain, NoCall
  <2>3. CASE RecoveryStep("webhook")
    <3>1. PICK x \in Server : \/ RecoveryStarts("webhook", x) \/ RecoveryVerifies("webhook", x)
                              \/ RecoveryEnds("webhook", x)
      BY <2>3 DEF RecoveryStep
    <3>2. CASE RecoveryStarts("webhook", x) \/ RecoveryVerifies("webhook", x)
      BY <1>1, <3>2 DEF RecoveryStarts, startSlave, RecoveryVerifies
    <3>3. CASE RecoveryEnds("webhook", x)
      <4>1. downtimed' \in {downtimed, downtimed \ {x}}
        BY <3>3 DEF RecoveryEnds, endMaintenance, Call
      <4>2. Replicates(x)
        BY <1>1, <3>3 DEF RecoveryEnds, Inv, QuietInv
      <4>. QED
        BY <1>1, <4>1, <4>2
    <3>. QED
      BY <3>1, <3>2, <3>3
  <2>4. CASE Others
    <3>1. ~RecoveryStep("watcher")
      BY <1>1 DEF RecoveryStep, RecoveryStarts, RecoveryVerifies, RecoveryEnds, Inv, QuietInv
    <3>2. ~OperatorNext
      BY <1>1, OperatorsAreLoud
    <3>3. ~WorldNext
      BY <1>1, WorldIsLoud
    <3>. QED
      BY <1>1, <2>4, <3>1, <3>2, <3>3 DEF Others, WatcherRecovers, Event
  <2>. QED
    BY <1>1, <2>1, <2>2, <2>3, <2>4 DEF WebhookNext
<1>2. Inv /\ [WebhookNext]_webhookVars =>
        [quiet /\ quiet' => \A s \in downtimed \ downtimed' : Replicates(s)]_webhookVars
  <2> SUFFICES ASSUME Inv, WebhookNext, quiet, quiet', NEW s \in downtimed \ downtimed'
               PROVE  Replicates(s)
    OBVIOUS
  <2>1. s \in downtimed /\ s \notin downtimed'
    OBVIOUS
  <2>2. quiet = TRUE /\ quiet' = TRUE
    OBVIOUS
  <2>. QED
    BY <1>1, <2>1, <2>2
<1>. QED
  BY <1>2, WebhookAlways, PTL DEF WebhookSpec, OnlyReplicasAreFreed

(* The scanner of scanner.ts looks at every host of the network it is      *)
(* given, up to its limit, and at nothing else, whatever the network.      *)
THEOREM ScansCoverTheirNetwork == WebhookSpec => []ScanCoversNetwork
<1>1. ASSUME WebhookTypeOK PROVE ScanCoversNetwork
  <2> SUFFICES ASSUME Running("discover") PROVE ScanCoversNetwork
    BY DEF ScanCoversNetwork
  <2>1. command \in Command /\ command.kind = "discover"
    BY <1>1 DEF WebhookTypeOK, OperatorTypeOK, Running, Idle
  <2>2. command \in DiscoverCommand
    BY <2>1, CommandKinds
  <2>3. command.base \in Addresses /\ command.prefix \in 0 .. Width
    BY <2>2 DEF DiscoverCommand
  <2>. QED
    BY <2>3, ScanOf DEF ScanCoversNetwork
<1>. QED
  BY <1>1, HandlerAlways, PTL

===========================================================================
