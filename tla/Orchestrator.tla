----------------------------- MODULE Orchestrator -----------------------------
(***************************************************************************)
(* The MySQL servers, Orchestrator's view of them, and what the client of  *)
(* src/src/core/discovery/topology.ts asks of it.                          *)
(*                                                                         *)
(* The servers and Orchestrator are external.  Orchestrator reads a server *)
(* now and then, so that its view lags behind.  It has two marks for a     *)
(* server that is not to be touched, maintenance and downtime; the client  *)
(* sets the first and clears the second, and shows both as one state.      *)
(*                                                                         *)
(* A call to Orchestrator may do what it is asked and say so, refuse, or   *)
(* go wrong: its answer is lost after the deed, or an error is answered    *)
(* with status 200, which only discoverInstance and forgetInstance look    *)
(* behind.                                                                 *)
(***************************************************************************)
EXTENDS Integers, FiniteSets

CONSTANTS
  Server, None,
  MaxEvents      \* bound on what happens outside the program, calls that go wrong included

Sources == Server \cup {None}

(* What Orchestrator knows of a server, and what is told of a cluster.     *)
View == [source : Sources, valid : BOOLEAN]
Topologies ==
  UNION {[clusterId : Server, primary : Sources, state : [S -> {"online", "offline", "maintenance"}]] :
           S \in SUBSET Server}

ASSUME OrchestratorAssumption ==
  /\ IsFiniteSet(Server) /\ MaxEvents \in Nat
  /\ None \notin Server \cup View \cup Topologies

VARIABLES
  up,          \* the servers that run
  source,      \* source[s]: whom s is configured to replicate from, or None
  started,     \* the servers whose replication threads were started
  seen,        \* seen[s]: what Orchestrator has last read from s, None if it does not know s
  maintained, downtimed,  \* the servers with Orchestrator's two marks
  events,      \* events so far
  quiet        \* no event since the last webhook

worldVars == <<up, source, started, seen, maintained, downtimed, events, quiet>>

Known == {s \in Server : seen[s] # None}
Replicates(s) == s \in started \cap up /\ source[s] \in up

WorldTypeOK ==
  /\ {up, started, maintained, downtimed} \subseteq SUBSET Server
  /\ source \in [Server -> Sources]
  /\ seen \in [Server -> View \cup {None}]
  /\ maintained \cup downtimed \subseteq Known
  /\ events \in 0 .. MaxEvents /\ quiet \in BOOLEAN

Undisturbed == UNCHANGED <<events, quiet>>
Event == events < MaxEvents /\ events' = events + 1 /\ quiet' = FALSE

-------------------------------------------------------------------------------
(* What Orchestrator answers to getClusters() and getTopology().           *)

(* Above[n][s] is up to n steps up the chain of masters from s; a cluster  *)
(* is named by its top, or by a member of the ring it ends in.             *)
Above[n \in 0 .. Cardinality(Server)] ==
  [s \in Server |-> IF n = 0 \/ s \notin Known \/ seen[s].source \notin Known THEN s
                   ELSE Above[n - 1][seen[s].source]]
Cluster(s) ==
  LET top == Above[Cardinality(Server)][s]
  IN  IF seen[top].source \notin Known THEN top
      ELSE CHOOSE m \in {Above[n][top] : n \in 0 .. Cardinality(Server)} : TRUE
Clusters   == {Cluster(s) : s \in Known}

State(s) ==
  CASE s \in maintained \cup downtimed -> "maintenance"
    [] s \notin maintained \cup downtimed /\ seen[s].valid -> "online"
    [] OTHER -> "offline"

(* parseTopologyFromArray(): the member without a master is the primary.   *)
Topology(x) ==
  IF x \notin Known THEN None
  ELSE LET members == {s \in Known : Cluster(s) = Cluster(x)}
           primary == {s \in members : seen[s].source = None}
       IN  [clusterId |-> Cluster(x),
            primary   |-> IF primary = {} THEN None ELSE CHOOSE s \in primary : TRUE,
            state     |-> [s \in members \ primary |-> State(s)]]

replicas(t) == DOMAIN t.state
Replicated(t) == t # None /\ replicas(t) # {}
Ailing(t) == {s \in replicas(t) : t.state[s] # "online"}

-------------------------------------------------------------------------------
(* The client's calls that change something.  Call(can, done, ok): ok is   *)
(* the answer; what can be done is done, unless the call goes wrong.       *)

Call(can, done, same, ok) ==
  \/ can /\ ok /\ done /\ Undisturbed
  \/ ~can /\ ~ok /\ same /\ Undisturbed
  \/ Event /\ ((can /\ done) \/ same)

startSlave(s, ok) ==
  /\ Call(s \in Known \cap up /\ source[s] # None, started' = started \cup {s},
          UNCHANGED started, ok)
  /\ UNCHANGED <<up, source, seen, maintained, downtimed>>

stopSlave(s, ok) ==
  /\ Call(s \in Known \cap up, started' = started \ {s}, UNCHANGED started, ok)
  /\ UNCHANGED <<up, source, seen, maintained, downtimed>>

resetSlave(s, ok) ==
  /\ Call(s \in (Known \cap up) \ started, source' = [source EXCEPT ![s] = None],
          UNCHANGED source, ok)
  /\ UNCHANGED <<up, started, seen, maintained, downtimed>>

(* Orchestrator moves s below m, never below itself.                       *)
relocateReplicas(s, m, ok) ==
  /\ Call({s, m} \subseteq Known \cap up /\ Cluster(m) # s,
          /\ source' = [source EXCEPT ![s] = m]
          /\ started' = started \cup {s}
          /\ seen' = [seen EXCEPT ![s] = [source |-> m, valid |-> TRUE]],
          UNCHANGED <<source, started, seen>>, ok)
  /\ UNCHANGED <<up, maintained, downtimed>>

beginMaintenance(s, ok) ==
  /\ Call(s \in Known, maintained' = maintained \cup {s}, UNCHANGED maintained, ok)
  /\ UNCHANGED <<up, source, started, seen, downtimed>>

endMaintenance(s, ok) ==
  /\ Call(s \in Known, downtimed' = downtimed \ {s}, UNCHANGED downtimed, ok)
  /\ UNCHANGED <<up, source, started, seen, maintained>>

(* To read a server is to learn of its master and its replicas as well.    *)
Read(S) ==
  [s \in Server |->
     IF s \in S THEN IF s \in up \/ seen[s] = None
                       THEN [source |-> source[s], valid |-> s \in up]
                       ELSE [seen[s] EXCEPT !.valid = FALSE]
     ELSE seen[s]]
Around(s) ==
  IF s \notin up THEN {s}
  ELSE {s} \cup ({source[s]} \ {None}) \cup {r \in up : source[r] = s}

discoverInstance(s, ok) ==
  /\ Call(s \in up, seen' = Read(Around(s)), UNCHANGED seen, ok)
  /\ UNCHANGED <<up, source, started, maintained, downtimed>>

forgetInstance(s, ok) ==
  /\ Call(TRUE,
          /\ seen' = [seen EXCEPT ![s] = None]
          /\ maintained' = maintained \ {s} /\ downtimed' = downtimed \ {s},
          UNCHANGED <<seen, maintained, downtimed>>, ok)
  /\ UNCHANGED <<up, source, started>>

(* A call that only asks: answered, or not.                                *)
Asked(ok) == IF ok THEN Undisturbed ELSE Event

-------------------------------------------------------------------------------
(* What happens outside the program.                                       *)

ServerFails(s) ==
  /\ s \in up /\ up' = up \ {s}
  /\ Event
  /\ UNCHANGED <<source, started, seen, maintained, downtimed>>

ServerReturns(s) ==
  /\ s \notin up /\ up' = up \cup {s}
  /\ Event
  /\ UNCHANGED <<source, started, seen, maintained, downtimed>>

(* Orchestrator reads a server it knows.  What it learns is an event for   *)
(* whoever believes its view to be settled.                                *)
OrchestratorReads(s) ==
  /\ s \in Known
  /\ seen' = Read(Around(s)) /\ seen' # seen
  /\ quiet' = FALSE
  /\ UNCHANGED <<up, source, started, maintained, downtimed, events>>

WorldNext == \E s \in Server : ServerFails(s) \/ ServerReturns(s) \/ OrchestratorReads(s)
=============================================================================
