---------------------------- MODULE FailoverWebhook ----------------------------
(***************************************************************************)
(* src/src/api/routes/webhooks.ts, the handler of Orchestrator's failover  *)
(* webhook with its wait for the sync it asks for, and                     *)
(* src/src/core/sync/replica-recovery.ts, which the handler and the        *)
(* topology watcher run, composed with what operators do meanwhile.        *)
(***************************************************************************)
EXTENDS Instances

CONSTANTS
  Successor,  \* the servers a webhook may name
  MaxTries    \* lookups until the handler stops waiting (10)

Progress == [at : {"starting", "verifying", "ending", "recovered", "failed"}, inMaintenance : BOOLEAN]

ASSUME WebhookAssumption ==
  Successor \subseteq Server /\ MaxTries \in Nat \ {0} /\ None \notin Progress

VARIABLES
  hook,          \* what the handler is doing; "idle" before the webhook
  successor,     \* the new primary the webhook names
  topology,      \* what the handler has found so far, or None
  lastReplicaCount, stableCount, retryCount,
  unasked,       \* the clusters the enumeration has not come to
  recovery,      \* recovery[a][s]: how far a's recovery of s is, or None
  outcome        \* the topology handed to the coordinator, or why there is none

hookVars == <<hook, successor, topology, lastReplicaCount, stableCount, retryCount,
              unasked, recovery, outcome>>
webhookVars == <<instanceVars, hookVars>>

Actor == {"webhook", "watcher"}
Refusal == {"skipped", "not found"}

HookInit ==
  /\ hook = "idle" /\ successor = None /\ topology = None
  /\ lastReplicaCount = -1 /\ stableCount = 0 /\ retryCount = 0
  /\ unasked = {}
  /\ recovery = [a \in Actor |-> [s \in Server |-> None]]
  /\ outcome = None

-------------------------------------------------------------------------------
(* replica-recovery.ts: one recovery per server that is marked or offline. *)

\* Mutant: the mark is forgotten.
StageUnmarked(at, t, s) == [at |-> at, inMaintenance |-> FALSE]

Stage(at, t, s) == [at |-> at, inMaintenance |-> t.state[s] = "maintenance"]

Started(t) ==
  [s \in Server |->
     IF s \notin replicas(t) \/ s \notin Ailing(t) THEN None
     ELSE Stage(IF t.state[s] = "offline" THEN "failed" ELSE "starting", t, s)]

At(a, s, at)   == recovery[a][s] # None /\ recovery[a][s].at = at
Goes(a, s, at) == recovery' = [recovery EXCEPT ![a][s].at = at]
Recovering(a)  == \E s \in Server : At(a, s, "starting") \/ At(a, s, "verifying") \/ At(a, s, "ending")

RecoveryOnly ==
  UNCHANGED <<hook, successor, topology, lastReplicaCount, stableCount, retryCount, unasked,
              outcome, operatorVars>>

RecoveryStarts(a, s) ==
  /\ At(a, s, "starting")
  /\ \E ok \in BOOLEAN : startSlave(s, ok) /\ Goes(a, s, IF ok THEN "verifying" ELSE "failed")
  /\ RecoveryOnly

\* Mutant: the state of the threads is not looked at.
RecoveryTrusts(a, s) ==
  /\ At(a, s, "verifying")
  /\ Goes(a, s, IF recovery[a][s].inMaintenance THEN "ending" ELSE "recovered")
  /\ Undisturbed
  /\ UNCHANGED <<up, source, started, seen, maintained, downtimed>>
  /\ RecoveryOnly

(* getReplicationStatus() asks the server itself; whom it replicates from  *)
(* is not asked.                                                           *)
RecoveryVerifies(a, s) ==
  /\ At(a, s, "verifying")
  /\ \/ /\ Replicates(s) /\ Undisturbed
        /\ Goes(a, s, IF recovery[a][s].inMaintenance THEN "ending" ELSE "recovered")
     \/ ~Replicates(s) /\ Undisturbed /\ Goes(a, s, "failed")
     \/ Event /\ Goes(a, s, "failed")
  /\ UNCHANGED <<up, source, started, seen, maintained, downtimed>>
  /\ RecoveryOnly

RecoveryEnds(a, s) ==
  /\ At(a, s, "ending")
  /\ \E ok \in BOOLEAN : endMaintenance(s, ok)
  /\ Goes(a, s, "recovered")
  /\ RecoveryOnly

(* A poll of the watcher starts recoveries for what it sees.               *)
WatcherRecovers(c) ==
  LET t == Topology(c) IN
  /\ ~Recovering("watcher")
  /\ t # None /\ t.primary # None /\ Ailing(t) # {}
  /\ Event
  /\ recovery' = [recovery EXCEPT !["watcher"] = Started(t)]
  /\ UNCHANGED <<up, source, started, seen, maintained, downtimed>>
  /\ RecoveryOnly

-------------------------------------------------------------------------------
(* handleFailoverWebhook().                                                *)

HookIs(step) == hook = step
NoCall == UNCHANGED <<up, source, started, seen, maintained, downtimed, operatorVars>>

WebhookArrives(s, isSuccessful) ==
  /\ HookIs("idle")
  /\ hook' = IF isSuccessful THEN "lookup" ELSE "done"
  /\ outcome' = IF isSuccessful THEN None ELSE "skipped"
  /\ successor' = s
  /\ quiet' = (NothingUnderWay /\ ~Recovering("watcher"))
  /\ UNCHANGED <<up, source, started, seen, maintained, downtimed, events, operatorVars,
                 topology, lastReplicaCount, stableCount, retryCount, unasked, recovery>>

(* After the loop: nothing found, something to recover, or straight on.    *)
Leave(t) ==
  /\ recovery' = IF t = None \/ t.primary = None THEN recovery
                 ELSE [recovery EXCEPT !["webhook"] = Started(t)]
  /\ IF t = None
       THEN hook' = "done" /\ outcome' = "not found"
       ELSE /\ UNCHANGED outcome
            /\ hook' = IF t.primary = None \/ Ailing(t) = {} THEN "sync" ELSE "recover"

(* Is the topology stable?  Seen to have as many replicas as before, twice,*)
(* with none of them marked or offline.                                    *)
Stable(t) ==
  /\ Replicated(t) /\ Ailing(t) = {}
  /\ Cardinality(replicas(t)) = lastReplicaCount /\ stableCount + 1 >= 2

Count(t) ==
  CASE ~Replicated(t) \/ Ailing(t) # {} -> UNCHANGED <<lastReplicaCount, stableCount>>
    [] Replicated(t) /\ Ailing(t) = {} /\ Cardinality(replicas(t)) = lastReplicaCount ->
         stableCount' = stableCount + 1 /\ UNCHANGED lastReplicaCount
    [] OTHER -> stableCount' = 0 /\ lastReplicaCount' = Cardinality(replicas(t))

\* Mutant: one try more.
WeighOnceMore(t) ==
  /\ Count(t)
  /\ retryCount' = retryCount + 1
  /\ IF Stable(t) \/ retryCount = MaxTries THEN Leave(t)
     ELSE hook' = "waiting" /\ UNCHANGED <<recovery, outcome>>

\* Mutant: no try is counted while a replica is marked.
WeighPatiently(t) ==
  /\ Count(t)
  /\ retryCount' = IF Replicated(t) /\ Ailing(t) # {} THEN retryCount ELSE retryCount + 1
  /\ IF Stable(t) \/ retryCount' = MaxTries THEN Leave(t)
     ELSE hook' = "waiting" /\ UNCHANGED <<recovery, outcome>>

Weigh(t) ==
  /\ Count(t)
  /\ retryCount' = retryCount + 1
  /\ IF Stable(t) \/ retryCount + 1 = MaxTries THEN Leave(t)
     ELSE hook' = "waiting" /\ UNCHANGED <<recovery, outcome>>

Unweighed == UNCHANGED <<lastReplicaCount, stableCount, retryCount, recovery, outcome>>

(* getTopology(successor); after a failure what was found before is kept.  *)
LookUp(ok) ==
  /\ HookIs("lookup")
  /\ Asked(ok)
  /\ topology' = IF ok THEN Topology(successor) ELSE topology
  /\ IF Replicated(topology') THEN Weigh(topology') ELSE hook' = "clusters" /\ Unweighed
  /\ UNCHANGED <<successor, unasked>> /\ NoCall

ListClusters(ok) ==
  /\ HookIs("clusters")
  /\ Asked(ok)
  /\ IF ok /\ Clusters # {}
       THEN unasked' = Clusters /\ hook' = "enumerate" /\ Unweighed
       ELSE Weigh(topology) /\ UNCHANGED unasked
  /\ UNCHANGED <<successor, topology>> /\ NoCall

(* A cluster counts if its primary is the successor and it has more        *)
(* replicas than what was found.                                           *)
Larger(t) ==
  /\ t # None /\ t.primary = successor
  /\ topology = None \/ Cardinality(replicas(t)) > Cardinality(replicas(topology))

Enumerate(c, ok) ==
  /\ HookIs("enumerate") /\ c \in unasked
  /\ Asked(ok)
  /\ unasked' = unasked \ {c}
  /\ topology' = IF ok /\ Larger(Topology(c)) THEN Topology(c) ELSE topology
  /\ IF unasked' = {} THEN Weigh(topology') ELSE UNCHANGED hook /\ Unweighed
  /\ UNCHANGED successor /\ NoCall

(* Two seconds later.                                                      *)
TriesAgain ==
  /\ HookIs("waiting")
  /\ hook' = "lookup"
  /\ Undisturbed
  /\ UNCHANGED <<successor, topology, unasked>> /\ Unweighed /\ NoCall

\* Mutant: the topology is not asked for again.
RefetchNothing(ok) ==
  /\ HookIs("recover") /\ ~Recovering("webhook")
  /\ Asked(ok)
  /\ hook' = "sync"
  /\ UNCHANGED <<successor, topology, unasked>> /\ Unweighed /\ NoCall

(* All recoveries have ended, well or not; the topology is asked for anew. *)
Refetch(ok) ==
  /\ HookIs("recover") /\ ~Recovering("webhook")
  /\ Asked(ok)
  /\ hook' = "sync"
  /\ topology' = IF ok /\ Topology(topology.clusterId) # None
                   THEN Topology(topology.clusterId) ELSE topology
  /\ UNCHANGED <<successor, unasked>> /\ Unweighed /\ NoCall

(* The coordinator takes over, and the handler awaits sync().  Its promise *)
(* is that of a sync under way, or is refused at once ("syncing"), or it   *)
(* waits for a timer (SyncCoordinator has all of it).                      *)
Syncs ==
  /\ HookIs("sync")
  /\ hook' \in {"debouncing", "syncing"} /\ outcome' = topology
  /\ Undisturbed
  /\ UNCHANGED <<successor, topology, lastReplicaCount, stableCount, retryCount, unasked,
                 recovery>>
  /\ NoCall

Awaiting(step) ==
  /\ hook' = step
  /\ Undisturbed
  /\ UNCHANGED <<successor, topology, unasked>> /\ Unweighed /\ NoCall

TimerFires  == HookIs("debouncing") /\ Awaiting("syncing")

(* What sync() answers is the reply.                                       *)
SyncAnswers == HookIs("syncing") /\ Awaiting("done")

(* A poll or another webhook calls sync() for the cluster meanwhile, which *)
(* clears the timer: nothing resolves the promise any more, and the        *)
(* handler never resumes.                                                  *)
TimerIsCleared == HookIs("debouncing") /\ Awaiting("abandoned")

HookStep ==
  \/ \E ok \in BOOLEAN :
       LookUp(ok) \/ ListClusters(ok) \/ (\E c \in unasked : Enumerate(c, ok)) \/ Refetch(ok)
  \/ TriesAgain \/ Syncs \/ TimerFires \/ SyncAnswers

RecoveryStep(a) ==
  \E s \in Server : RecoveryStarts(a, s) \/ RecoveryVerifies(a, s) \/ RecoveryEnds(a, s)

(* What happens once the topology is handed over is of no interest here.   *)
Others ==
  /\ hook \notin {"debouncing", "syncing", "done", "abandoned"}
  /\ \/ RecoveryStep("watcher")
     \/ \E c \in Server : WatcherRecovers(c)
     \/ WorldNext /\ UNCHANGED <<operatorVars, hookVars>>
     \/ OperatorNext /\ UNCHANGED hookVars

WebhookNext ==
  \/ \E s \in Successor, isSuccessful \in BOOLEAN : WebhookArrives(s, isSuccessful)
  \/ HookStep
  \/ TimerIsCleared
  \/ RecoveryStep("webhook")
  \/ Others

-------------------------------------------------------------------------------
HookStages == {"idle", "lookup", "clusters", "enumerate", "waiting", "recover", "sync",
               "debouncing", "syncing", "done", "abandoned"}

(* Types: among them, that the handler makes at most MaxTries lookups, and *)
(* that what it counts as stable it has counted at least as often.         *)
WebhookTypeOK ==
  /\ WorldTypeOK /\ OperatorTypeOK
  /\ topology \in Topologies \cup {None}
  /\ hook \in HookStages
  /\ retryCount \in 0 .. MaxTries
  /\ hook \in {"lookup", "clusters", "enumerate", "waiting"} => retryCount < MaxTries
  /\ lastReplicaCount \in -1 .. Cardinality(Server) /\ stableCount \in 0 .. retryCount
  /\ recovery \in [Actor -> [Server -> Progress \cup {None}]]

(* If nothing but the handler did anything since the webhook, what it hands*)
(* to the coordinator is what Orchestrator answers at that moment, the     *)
(* effects of its own recoveries included.                                 *)
QuietSyncIsCurrent ==
  [][hook = "sync" /\ hook' # "sync" /\ quiet => outcome' = Topology(topology.clusterId)]_webhookVars

(* In such a quiet handling, a replica that is still marked when the       *)
(* topology is synced is one that does not replicate, or that an operator  *)
(* has marked: no downtime of a failover outlives a recovery that worked.  *)
(* (The types of the state are checked with it.)                           *)
DowntimeEndsWithRecovery ==
  /\ WebhookTypeOK
  /\ hook = "sync" /\ quiet /\ topology.primary # None =>
       \A s \in replicas(topology) :
         topology.state[s] = "maintenance" => s \in maintained \/ ~Replicates(s)

(* The handler marks nothing free that was not seen to replicate: while    *)
(* nothing else happens, a mark it removes is that of a replica that runs. *)
OnlyReplicasAreFreed ==
  [][quiet /\ quiet' => \A s \in downtimed \ downtimed' : Replicates(s)]_webhookVars

(* Every webhook is answered, whatever fails and whatever Orchestrator     *)
(* never comes to know, unless a later sync() of the cluster clears the    *)
(* timer that the handler's own waits for: such a webhook gets no answer   *)
(* (sync-coordinator.ts:73 clears the timer and resolves no promise).      *)
WebhookIsAnsweredOrSuperseded == hook # "idle" ~> hook \in {"done", "abandoned"}

(* replica-recovery.ts:131: a recovered instance is "replication running,  *)
(* following" the new primary.                                             *)
RecoveredFollowsNewPrimary ==
  \A s \in Server :
    hook = "sync" /\ quiet /\ At("webhook", s, "recovered") => source[s] = successor
=============================================================================
