--------------------------- MODULE FailoverExecutor ---------------------------
(***************************************************************************)
(* src/src/core/failover: the executor's operations on one cluster, from   *)
(* the topology the caller fetched to the recorded result, with the        *)
(* registry of old primaries that wait to be recovered.                    *)
(*                                                                         *)
(* The executor is a singleton of its process.  In the API server requests *)
(* overlap: manual failovers and cancellations.  In the CLI one command    *)
(* runs at a time: switchovers, failovers and recoveries.  Between two     *)
(* awaits nothing interleaves, so validation, candidate selection and the  *)
(* request to Orchestrator are one step.  Servers fail and return, and     *)
(* Orchestrator promotes on its own, while an operation waits (external).  *)
(***************************************************************************)
EXTENDS Routing, Integers, FiniteSets

CONSTANTS
  Op,          \* operations that can be requested
  MaxEvents    \* bound on the environment's events

ASSUME FailoverAssumption ==
  /\ None \notin Server /\ None \notin Op
  /\ MaxEvents \in Nat

VARIABLES
  process,    \* "api" or "cli": the process this executor lives in
  (* Orchestrator's view of the cluster, and the servers themselves *)
  master,     \* the primary, as Orchestrator reports it
  online,     \* servers that are up
  replicating,\* servers whose replication threads run
  events,     \* environment events so far
  (* the executor *)
  step,       \* step[o]: where the code that runs o stands
  kind,       \* kind[o]: "failover" or "switchover"
  snapshot,   \* snapshot[o]: the MySQLCluster fetched for o
  newPrimary, \* newPrimary[o]: operation.newPrimaryId
  state,      \* state[o]: operation.state
  current,    \* currentOperation
  history,    \* history[o]: occurrences of o in operationHistory
  pending,    \* pending[s]: newPrimaryId of the recovery pending for s, or None
  recovering, \* the instance whose recovery is being verified, or None
  routed,     \* the rows of ProxySQL's two hostgroups
  (* what the operations did *)
  promoted,   \* promoted[o]: the server Orchestrator promoted for o
  cancelled   \* cancelled[o]: cancelOperation answered true for o

cluster   == <<master, online, replicating, events>>
operation == <<kind, snapshot, newPrimary, state>>
failoverVars == <<process, cluster, step, operation, current, history, pending,
                  recovering, routed, promoted, cancelled>>

Step  == {"unused", "fetched", "promoting", "demoting", "routing", "finished"}
State == {"IDLE", "PROMOTING", "RECONFIGURING", "COMPLETED", "FAILED"}

Snapshots == [primary : Server \cup {None}, replicas : SUBSET Server,
              online : SUBSET Server]
NoSnapshot == [primary |-> None, replicas |-> {}, online |-> {}]

Init ==
  /\ process \in {"api", "cli"}
  /\ master \in Server
  /\ online = Server
  /\ replicating = Server \ {master}
  /\ events = 0
  /\ step       = [o \in Op |-> "unused"]
  /\ kind       = [o \in Op |-> "failover"]
  /\ snapshot   = [o \in Op |-> NoSnapshot]
  /\ newPrimary = [o \in Op |-> None]
  /\ state      = [o \in Op |-> "IDLE"]
  /\ current    = None
  /\ history    = [o \in Op |-> 0]
  /\ pending    = [s \in Server |-> None]
  /\ recovering = None
  /\ routed     = Installed([primary |-> master, replicas |-> Server \ {master}])
  /\ promoted   = [o \in Op |-> None]
  /\ cancelled  = [o \in Op |-> FALSE]

Running(o)  == step[o] \in {"promoting", "demoting", "routing"}
Finished(o) == step[o] = "finished"

(* The CLI awaits each command before it reads the next one.               *)
CommandMayStart ==
  process = "api" \/ (recovering = None /\ \A o \in Op : step[o] \in {"unused", "finished"})

-------------------------------------------------------------------------------
(* The environment.                                                        *)

Event == events < MaxEvents /\ events' = events + 1

ServerFails(s) ==
  /\ s \in online
  /\ Event
  /\ online' = online \ {s}
  /\ replicating' = replicating \ {s}
  /\ UNCHANGED <<process, master, step, operation, current, history, pending,
                 recovering, routed, promoted, cancelled>>

ServerReturns(s) ==
  /\ s \notin online
  /\ Event
  /\ online' = online \cup {s}
  /\ UNCHANGED <<process, master, replicating, step, operation, current, history,
                 pending, recovering, routed, promoted, cancelled>>

OrchestratorRecovers(s) ==
  /\ master \notin online
  /\ s \in online
  /\ Event
  /\ master' = s
  /\ replicating' = replicating \ {s}
  /\ UNCHANGED <<process, online, step, operation, current, history, pending,
                 recovering, routed, promoted, cancelled>>

-------------------------------------------------------------------------------
(* A request: the caller fetches the topology and passes it on.  t is the  *)
(* target the user named, if any.  The CLI's commands return early when    *)
(* the primary's health is not what the command is for.                    *)
Request(o, k, t) ==
  /\ step[o] = "unused"
  /\ CommandMayStart
  /\ k = "switchover" => process = "cli"
  /\ process = "cli" => (k = "switchover" <=> master \in online)
  /\ step' = [step EXCEPT ![o] = "fetched"]
  /\ kind' = [kind EXCEPT ![o] = k]
  /\ snapshot' = [snapshot EXCEPT ![o] =
       [primary |-> master, replicas |-> Server \ {master}, online |-> online]]
  /\ newPrimary' = [newPrimary EXCEPT ![o] = t]
  /\ UNCHANGED <<process, cluster, state, current, history, pending, recovering,
                 routed, promoted, cancelled>>

PrimaryHealthy(o) == snapshot[o].primary \in snapshot[o].online
Candidates(o) ==
  IF newPrimary[o] = None THEN snapshot[o].replicas \cap snapshot[o].online
                          ELSE {newPrimary[o]} \cap snapshot[o].replicas

(* executeSwitchover and executeManualFailover reject the request.         *)
Rejected(o) ==
  \/ kind[o] = "switchover" /\ ~PrimaryHealthy(o)
  \/ kind[o] = "failover" /\ PrimaryHealthy(o)
  \/ newPrimary[o] # None /\ newPrimary[o] \notin snapshot[o].replicas

Reject(o) ==
  /\ step[o] = "fetched"
  /\ Rejected(o)
  /\ step'    = [step EXCEPT ![o] = "finished"]
  /\ state'   = [state EXCEPT ![o] = "FAILED"]
  /\ history' = [history EXCEPT ![o] = @ + 1]
  /\ newPrimary' = [newPrimary EXCEPT ![o] = None]
  /\ UNCHANGED <<process, cluster, kind, snapshot, current, pending,
                 recovering, routed, promoted, cancelled>>

(* The operation becomes current, a candidate is selected and Orchestrator *)
(* is asked to promote it.                                                 *)
Execute(o) ==
  /\ step[o] = "fetched"
  /\ ~Rejected(o)
  /\ \E s \in Candidates(o) : newPrimary' = [newPrimary EXCEPT ![o] = s]
  /\ step'   = [step EXCEPT ![o] = "promoting"]
  /\ state'  = [state EXCEPT ![o] = "PROMOTING"]
  /\ current' = o
  /\ UNCHANGED <<process, cluster, kind, snapshot, history, pending, recovering,
                 routed, promoted, cancelled>>

(* handleFailure, and the executor's finally: current is cleared whichever *)
(* operation it is.                                                        *)
Fail(o) ==
  /\ step'    = [step EXCEPT ![o] = "finished"]
  /\ state'   = [state EXCEPT ![o] = "FAILED"]
  /\ history' = [history EXCEPT ![o] = @ + 1]
  /\ current' = None

\* Mutant: the missing candidate is not an error, the operation waits.
WaitForCandidate(o) ==
  /\ step[o] = "fetched"
  /\ ~Rejected(o)
  /\ Candidates(o) = {}
  /\ UNCHANGED failoverVars

NoCandidate(o) ==
  /\ step[o] = "fetched"
  /\ ~Rejected(o)
  /\ Candidates(o) = {}
  /\ Fail(o)
  /\ UNCHANGED <<process, cluster, kind, snapshot, newPrimary, pending, recovering,
                 routed, promoted, cancelled>>

(* Orchestrator's answer.  A graceful takeover promotes the named server;  *)
(* forceMasterFailover names only the cluster, and Orchestrator chooses.   *)
MayPromote(o, s) ==
  /\ s \in online \ {master}
  /\ kind[o] = "switchover" => s = newPrimary[o] /\ master \in online

Promoted(o, s) ==
  /\ step[o] = "promoting"
  /\ MayPromote(o, s)
  /\ master' = s
  /\ replicating' = replicating \ {s}
  /\ promoted' = [promoted EXCEPT ![o] = s]
  /\ IF kind[o] = "switchover"
     THEN step' = [step EXCEPT ![o] = "demoting"] /\ UNCHANGED state
     ELSE /\ step'  = [step EXCEPT ![o] = "routing"]
          /\ state' = [state EXCEPT ![o] = "RECONFIGURING"]
  /\ UNCHANGED <<process, online, events, kind, snapshot, newPrimary, current,
                 history, pending, recovering, routed, cancelled>>

(* Orchestrator promotes, but its answer does not arrive.                  *)
AnswerLost(o, s) ==
  /\ step[o] = "promoting"
  /\ MayPromote(o, s)
  /\ Event
  /\ master' = s
  /\ replicating' = replicating \ {s}
  /\ promoted' = [promoted EXCEPT ![o] = s]
  /\ Fail(o)
  /\ UNCHANGED <<process, online, kind, snapshot, newPrimary, pending, recovering,
                 routed, cancelled>>

\* Mutant: the success field of the promotion's result is not tested.
FailureIgnored(o) ==
  /\ step[o] = "promoting"
  /\ step'  = [step EXCEPT ![o] = "routing"]
  /\ state' = [state EXCEPT ![o] = "RECONFIGURING"]
  /\ UNCHANGED <<process, cluster, kind, snapshot, newPrimary, current, history,
                 pending, recovering, routed, promoted, cancelled>>

PromotionFails(o) ==
  /\ step[o] = "promoting"
  /\ Fail(o)
  /\ UNCHANGED <<process, cluster, kind, snapshot, newPrimary, pending, recovering,
                 routed, promoted, cancelled>>

\* Mutant: replication counts as started without asking the server.
StartedUnseen(o) ==
  /\ step[o] = "demoting"
  /\ replicating' = replicating \cup {snapshot[o].primary}
  /\ step'  = [step EXCEPT ![o] = "routing"]
  /\ state' = [state EXCEPT ![o] = "RECONFIGURING"]
  /\ UNCHANGED <<process, master, online, events, kind, snapshot, newPrimary,
                 current, history, pending, recovering, routed, promoted, cancelled>>

(* START SLAVE on the old primary of a switchover; a failure is a warning. *)
OldPrimaryStarted(o) ==
  /\ step[o] = "demoting"
  /\ \/ /\ snapshot[o].primary \in online
        /\ replicating' = replicating \cup {snapshot[o].primary}
     \/ UNCHANGED replicating
  /\ step'  = [step EXCEPT ![o] = "routing"]
  /\ state' = [state EXCEPT ![o] = "RECONFIGURING"]
  /\ UNCHANGED <<process, master, online, events, kind, snapshot, newPrimary,
                 current, history, pending, recovering, routed, promoted, cancelled>>

(* relocateReplica does nothing; syncCluster installs the snapshot with    *)
(* its primary replaced, or fails, and its result is not looked at.        *)
RoutedTopology(o) == [primary |-> newPrimary[o], replicas |-> snapshot[o].replicas]

\* Mutant: the finally block that clears currentOperation is missing.
CompleteKeepsCurrent(o) ==
  /\ step[o] = "routing"
  /\ routed' \in {Installed(RoutedTopology(o)), routed}
  /\ step'    = [step EXCEPT ![o] = "finished"]
  /\ state'   = [state EXCEPT ![o] = "COMPLETED"]
  /\ history' = [history EXCEPT ![o] = @ + 1]
  /\ UNCHANGED <<process, cluster, kind, snapshot, newPrimary, current, pending,
                 recovering, promoted, cancelled>>

\* Mutant: the old primary of a switchover is queued for recovery too.
CompleteQueuesAlways(o) ==
  /\ step[o] = "routing"
  /\ routed' \in {Installed(RoutedTopology(o)), routed}
  /\ step'    = [step EXCEPT ![o] = "finished"]
  /\ state'   = [state EXCEPT ![o] = "COMPLETED"]
  /\ pending' = [pending EXCEPT ![snapshot[o].primary] = newPrimary[o]]
  /\ history' = [history EXCEPT ![o] = @ + 1]
  /\ current' = None
  /\ UNCHANGED <<process, cluster, kind, snapshot, newPrimary, recovering,
                 promoted, cancelled>>

Complete(o) ==
  /\ step[o] = "routing"
  /\ routed' \in {Installed(RoutedTopology(o)), routed}
  /\ step'    = [step EXCEPT ![o] = "finished"]
  /\ state'   = [state EXCEPT ![o] = "COMPLETED"]
  /\ pending' = IF kind[o] = "failover"
                THEN [pending EXCEPT ![snapshot[o].primary] = newPrimary[o]]
                ELSE pending
  /\ history' = [history EXCEPT ![o] = @ + 1]
  /\ current' = None
  /\ UNCHANGED <<process, cluster, kind, snapshot, newPrimary, recovering,
                 promoted, cancelled>>

\* Mutant: the cancelled operation stays current.
CancelKeepsCurrent(o) ==
  /\ process = "api"
  /\ current = o
  /\ state'   = [state EXCEPT ![o] = "FAILED"]
  /\ history' = [history EXCEPT ![o] = @ + 1]
  /\ cancelled' = [cancelled EXCEPT ![o] = TRUE]
  /\ UNCHANGED <<process, cluster, step, kind, snapshot, newPrimary, current, pending,
                 recovering, routed, promoted>>

(* cancelOperation changes the record of the current operation; the code   *)
(* that runs it is not told.                                               *)
Cancel(o) ==
  /\ process = "api"
  /\ current = o
  /\ state'   = [state EXCEPT ![o] = "FAILED"]
  /\ history' = [history EXCEPT ![o] = @ + 1]
  /\ current' = None
  /\ cancelled' = [cancelled EXCEPT ![o] = TRUE]
  /\ UNCHANGED <<process, cluster, step, kind, snapshot, newPrimary, pending,
                 recovering, routed, promoted>>

-------------------------------------------------------------------------------
(* Recovery: the instance is online, START SLAVE succeeds (the threads may *)
(* stop again), and two seconds later the replication status decides.  A   *)
(* refusal changes nothing.                                                *)
RecoverStarts(s) ==
  /\ process = "cli"
  /\ CommandMayStart
  /\ pending[s] # None
  /\ s \in online
  /\ recovering'  = s
  /\ replicating' \in {replicating, replicating \cup {s}}
  /\ UNCHANGED <<process, master, online, events, step, operation, current, history,
                 pending, routed, promoted, cancelled>>

RecoverVerifies ==
  /\ recovering # None
  /\ pending' = IF recovering \in replicating
                THEN [pending EXCEPT ![recovering] = None] ELSE pending
  /\ recovering' = None
  /\ UNCHANGED <<process, cluster, step, operation, current, history, routed,
                 promoted, cancelled>>

-------------------------------------------------------------------------------
(* Fairness: Orchestrator answers or the HTTP client's time-out ends the   *)
(* call; a server that is connected to answers (the driver's time-out is   *)
(* for the connection only: for a query this is assumed). So an operation  *)
(* under way always proceeds.                                              *)
Proceed(o) ==
  \/ Reject(o)
  \/ Execute(o)
  \/ NoCandidate(o)
  \/ \E s \in Server : Promoted(o, s)
  \/ \E s \in Server : AnswerLost(o, s)
  \/ PromotionFails(o)
  \/ OldPrimaryStarted(o)
  \/ Complete(o)

Environment ==
  \E s \in Server : ServerFails(s) \/ ServerReturns(s) \/ OrchestratorRecovers(s)

Next ==
  \/ Environment
  \/ \E o \in Op, k \in {"failover", "switchover"}, t \in Server \cup {None} :
       Request(o, k, t)
  \/ \E o \in Op : Proceed(o) \/ Cancel(o)
  \/ \E s \in Server : RecoverStarts(s)
  \/ RecoverVerifies

Spec ==
  /\ Init
  /\ [][Next]_failoverVars
  /\ \A o \in Op : WF_failoverVars(Proceed(o))
  /\ WF_failoverVars(RecoverVerifies)

-------------------------------------------------------------------------------
TypeOK ==
  /\ process \in {"api", "cli"}
  /\ master \in Server /\ online \subseteq Server /\ replicating \subseteq online
  /\ events \in 0..MaxEvents
  /\ step \in [Op -> Step]
  /\ kind \in [Op -> {"failover", "switchover"}]
  /\ snapshot \in [Op -> Snapshots]
  /\ newPrimary \in [Op -> Server \cup {None}]
  /\ state \in [Op -> State]
  /\ current \in Op \cup {None}
  /\ history \in [Op -> 0..2]
  /\ pending \in [Server -> Server \cup {None}]
  /\ recovering \in Server \cup {None}
  /\ routed \subseteq Row
  /\ promoted \in [Op -> Server \cup {None}]
  /\ cancelled \in [Op -> BOOLEAN]

(* The history holds an operation once when it has finished, whichever way *)
(* it ended and whatever ran beside it, and once more for a cancellation.  *)
RecordedOnce ==
  \A o \in Op : history[o] = (IF Finished(o) THEN 1 ELSE 0) + (IF cancelled[o] THEN 1 ELSE 0)

(* Overlapping operations share currentOperation and each clears it when   *)
(* it ends; still it never names an operation that has ended, so cancel    *)
(* cannot turn a finished operation into a failed one.                     *)
CurrentIsRunning == current # None => Running(current) /\ ~cancelled[current]

(* Only a completed failover puts a server up for recovery: the entry      *)
(* names its old primary, down when the operator asked, and the new one.   *)
PendingIsOldPrimary ==
  \A s \in Server : pending[s] # None =>
    \E o \in Op :
      /\ Finished(o) /\ state[o] = "COMPLETED" /\ kind[o] = "failover"
      /\ snapshot[o].primary = s /\ s \notin snapshot[o].online
      /\ newPrimary[o] = pending[s]

(* An operation that reports COMPLETED did promote a server, and only      *)
(* operations that promoted one have touched the routing                   *)
(* (docs/failover.md:545, the order of the states).                        *)
OutcomeIsTrue ==
  /\ \A o \in Op : state[o] \in {"RECONFIGURING", "COMPLETED"} => promoted[o] # None
  /\ (\A o \in Op : promoted[o] = None) =>
       \E s \in Server : routed = Installed([primary |-> s, replicas |-> Server \ {s}])

(* Every request is answered, whatever fails meanwhile.                    *)
RequestsFinish == \A o \in Op : step[o] = "fetched" ~> Finished(o)

(* Documented, and not so.  executor.ts:235 "Cancel an in-progress         *)
(* operation"; docs/failover.md:870 "Failover operation cancelled".        *)
CancelledStaysFailed == \A o \in Op : cancelled[o] => state[o] = "FAILED"

(* executor.ts:127 "user selects replica".                                 *)
SelectedReplicaIsPromoted ==
  \A o \in Op : state[o] = "COMPLETED" => promoted[o] = newPrimary[o]

(* docs/failover.md:610 "New primary -> writer hostgroup (10)": of a single*)
(* operation whose routing update succeeded.                               *)
CompletedRoutesWrites ==
  \A o \in Op : state[o] = "COMPLETED" /\ routed = Installed(RoutedTopology(o)) =>
    newPrimary[o] \in Writers(routed)
===============================================================================
