---------------------------- MODULE TopologyWatcher ----------------------------
(***************************************************************************)
(* src/src/core/sync/topology-watcher.ts and the callers of the sync       *)
(* coordinator in the API server: the watcher's polls and the handler of   *)
(* Orchestrator's failover webhook (src/src/api/routes/webhooks.ts), both  *)
(* composed with SyncCoordinator, whose calls they make.                   *)
(*                                                                         *)
(* A member of Poll runs poll(), the other members of Call run webhook     *)
(* handlers.  Polls overlap when one takes longer than the interval.  What *)
(* Orchestrator answers may be out of date when it is used, because the    *)
(* topology changes while the answer is under way.  The server process may *)
(* crash and start again: its maps are lost, ProxySQL's tables are not.    *)
(* Neither webhook nor watcher forces a sync, and nothing in src/ calls    *)
(* clearCache or resetCooldown outside the tests.                          *)
(***************************************************************************)
EXTENDS SyncCoordinator

CONSTANTS
  Poll,         \* the calls that polls make
  Maintenance,  \* topologies with a replica that recoverReplica tries to recover
  MaxEvents     \* bound on topology changes, webhooks and restarts together

ASSUME WatcherAssumption ==
  /\ Poll \subseteq Call
  /\ Maintenance \subseteq Topo
  /\ MaxEvents \in Nat
  /\ None \notin [cluster : Cluster, topo : Topo]

VARIABLES
  topology,            \* topology[c]: what Orchestrator reports (external)
  watcher,             \* "off", "starting", "watching" or "stuck"
  polls,               \* the polls under way
  todo,                \* todo[p]: the clusters poll p has not come to
  fetched,             \* fetched[k]: cluster and topology k works on, or None
  lastTopologyHashes,  \* lastTopologyHashes[c]: the watcher's, not the coordinator's
  recovering,          \* recovering[c]: recoveries started by polls are under way
  events               \* topology changes, webhooks and restarts so far

watcherVars == <<watcher, polls, todo, fetched, lastTopologyHashes, recovering>>
allVars == <<syncVars, topology, watcherVars, events>>

Fetched == [cluster : Cluster, topo : Topo]

(* Once ProxySQL has answered, the lock is released and the callers resume *)
(* before the event loop turns to anything else.                           *)
Settling == \E k \in Call : phase[k] \in {"settled", "answered"}

Event == events < MaxEvents /\ events' = events + 1

CallsHave(v)    == [k \in Call |-> v]
ClustersHave(v) == [c \in Cluster |-> v]

WatcherInit ==
  /\ Init
  /\ watcher = "off"
  /\ polls = {}
  /\ todo = [p \in Poll |-> {}]
  /\ fetched = CallsHave(None)
  /\ lastTopologyHashes = ClustersHave(None)
  /\ recovering = ClustersHave(FALSE)
  /\ topology \in [Cluster -> Topo]
  /\ events = 0

-------------------------------------------------------------------------------
(* poll(): per cluster getTopology, the test of the hash and the sync; an  *)
(* error ends the work on the cluster.  A failing getClusters is a poll    *)
(* for which every getTopology fails.                                      *)

BeginPoll(p) ==
  /\ p \notin polls
  /\ polls' = polls \cup {p}
  /\ todo'  = [todo EXCEPT ![p] = Cluster]
  /\ UNCHANGED <<fetched, lastTopologyHashes, recovering>>

(* start() awaits its first poll before it installs the interval.          *)
StartWatcher(p) ==
  /\ ~Settling
  /\ watcher = "off"
  /\ enabled
  /\ watcher' = "starting"
  /\ BeginPoll(p)
  /\ UNCHANGED <<syncVars, topology, events>>

IntervalFires(p) ==
  /\ ~Settling
  /\ watcher = "watching"
  /\ BeginPoll(p)
  /\ UNCHANGED <<syncVars, topology, watcher, events>>

Visits(p, c) == ~Settling /\ p \in polls /\ fetched[p] = None /\ c \in todo[p]

Fetch(p, c) ==
  /\ Visits(p, c)
  /\ fetched' = [fetched EXCEPT ![p] = [cluster |-> c, topo |-> topology[c]]]
  /\ todo' = [todo EXCEPT ![p] = @ \ {c}]
  /\ UNCHANGED <<syncVars, topology, watcher, polls, lastTopologyHashes, recovering, events>>

\* Mutant: the error ends start() before the interval is installed.
FetchErrorEscapes(p, c) ==
  /\ Visits(p, c)
  /\ polls' = polls \ {p}
  /\ watcher' = IF watcher = "starting" THEN "stuck" ELSE watcher
  /\ UNCHANGED <<syncVars, topology, todo, fetched, lastTopologyHashes, recovering, events>>

FetchFails(p, c) ==
  /\ Visits(p, c)
  /\ todo' = [todo EXCEPT ![p] = @ \ {c}]
  /\ UNCHANGED <<syncVars, topology, watcher, polls, fetched, lastTopologyHashes,
                 recovering, events>>

Arrived(k) == ~Settling /\ fetched[k] # None /\ phase[k] = "unused"
AttemptReplicaRecovery(f) ==
  recovering' = [recovering EXCEPT ![f.cluster] = @ \/ f.topo \in Maintenance]

PollUnchanged(p) ==
  /\ p \in polls /\ Arrived(p)
  /\ lastTopologyHashes[fetched[p].cluster] = fetched[p].topo
  /\ AttemptReplicaRecovery(fetched[p])
  /\ fetched' = [fetched EXCEPT ![p] = None]
  /\ UNCHANGED <<syncVars, topology, watcher, polls, todo, lastTopologyHashes, events>>

\* Mutant: the hash has the range of a flag, only the first topology differs.
PollSyncsOnce(p) ==
  /\ p \in polls /\ Arrived(p)
  /\ lastTopologyHashes[fetched[p].cluster] = None
  /\ AttemptReplicaRecovery(fetched[p])
  /\ Sync(p, fetched[p].cluster, fetched[p].topo, FALSE)
  /\ UNCHANGED <<topology, watcher, polls, todo, fetched, lastTopologyHashes, events>>

PollSyncs(p) ==
  /\ p \in polls /\ Arrived(p)
  /\ lastTopologyHashes[fetched[p].cluster] # fetched[p].topo
  /\ AttemptReplicaRecovery(fetched[p])
  /\ Sync(p, fetched[p].cluster, fetched[p].topo, FALSE)
  /\ UNCHANGED <<topology, watcher, polls, todo, fetched, lastTopologyHashes, events>>

\* Mutant: the answer of Orchestrator is recorded in place of its hash.
PollRecordsAnswer(p) ==
  /\ p \in polls
  /\ Receive(p)
  /\ lastTopologyHashes' = [lastTopologyHashes EXCEPT ![fetched[p].cluster] = fetched[p]]
  /\ fetched' = [fetched EXCEPT ![p] = None]
  /\ UNCHANGED <<topology, watcher, polls, todo, recovering, events>>

(* The hash is recorded whatever the sync has answered.                    *)
PollResumes(p) ==
  /\ p \in polls
  /\ Receive(p)
  /\ lastTopologyHashes' =
       [lastTopologyHashes EXCEPT ![fetched[p].cluster] = fetched[p].topo]
  /\ fetched' = [fetched EXCEPT ![p] = None]
  /\ UNCHANGED <<topology, watcher, polls, todo, recovering, events>>

PollEnds(p) ==
  /\ ~Settling
  /\ p \in polls
  /\ fetched[p] = None /\ todo[p] = {}
  /\ polls' = polls \ {p}
  /\ watcher' = IF watcher = "starting" THEN "watching" ELSE watcher
  /\ UNCHANGED <<syncVars, topology, todo, fetched, lastTopologyHashes, recovering, events>>

(* A recovery started by a poll has ended; if the replica has recovered,   *)
(* the cluster's hash is deleted.                                          *)
RecoveryEnds(c) ==
  /\ ~Settling
  /\ recovering[c]
  /\ recovering' = [recovering EXCEPT ![c] = FALSE]
  /\ \/ UNCHANGED lastTopologyHashes
     \/ lastTopologyHashes' = [lastTopologyHashes EXCEPT ![c] = None]
  /\ UNCHANGED <<syncVars, topology, watcher, polls, todo, fetched, events>>

(* The watcher's hash, unlike the coordinator's, holds the replicas' lag:  *)
(* once the lag has changed the recorded hash matches no topology.         *)
LagChanges(c) ==
  /\ ~Settling
  /\ lastTopologyHashes[c] # None
  /\ lastTopologyHashes' = [lastTopologyHashes EXCEPT ![c] = None]
  /\ UNCHANGED <<syncVars, topology, watcher, polls, todo, fetched, recovering, events>>

-------------------------------------------------------------------------------
(* handleFailoverWebhook: the topology it has settled on, the sync, the    *)
(* reply.                                                                  *)

WebhookFetches(k, c) ==
  /\ ~Settling
  /\ k \notin Poll
  /\ Event
  /\ fetched[k] = None
  /\ fetched' = [fetched EXCEPT ![k] = [cluster |-> c, topo |-> topology[c]]]
  /\ UNCHANGED <<syncVars, topology, watcher, polls, todo, lastTopologyHashes,
                 recovering>>

WebhookSyncs(k) ==
  /\ k \notin Poll /\ Arrived(k)
  /\ Sync(k, fetched[k].cluster, fetched[k].topo, FALSE)
  /\ UNCHANGED <<topology, watcherVars, events>>

WebhookReplies(k) ==
  /\ k \notin Poll
  /\ Receive(k)
  /\ fetched' = [fetched EXCEPT ![k] = None]
  /\ UNCHANGED <<topology, watcher, polls, todo, lastTopologyHashes, recovering, events>>

(* The promise of a call whose timer was cleared never resolves: the poll, *)
(* or the handler, that awaits it never resumes, and its frame is garbage. *)
Abandoned(k) ==
  /\ ~Settling
  /\ Superseded(k)
  /\ phase'   = [phase EXCEPT ![k] = "unused"]
  /\ args'    = [args EXCEPT ![k] = None]
  /\ fetched' = [fetched EXCEPT ![k] = None]
  /\ polls'   = polls \ {k}
  /\ watcher' = IF watcher = "starting" /\ k \in polls THEN "stuck" ELSE watcher
  /\ todo'    = [p \in Poll |-> IF p = k THEN {} ELSE todo[p]]
  /\ UNCHANGED <<enabled, attempt, joinedTo, result, pendingDebounces, locks, cooling,
                 lastTopologyHash, openSyncs, synced,
                 topology, lastTopologyHashes, recovering, events>>

-------------------------------------------------------------------------------
TopologyChanges(c, t) ==
  /\ ~Settling
  /\ Event
  /\ topology[c] # t
  /\ topology' = [topology EXCEPT ![c] = t]
  /\ UNCHANGED <<syncVars, watcherVars>>

(* A crash and a new process: a sync that was writing stays incomplete.    *)
Restart ==
  /\ ~Settling
  /\ Event
  /\ phase'    = CallsHave("unused")
  /\ args'     = CallsHave(None)
  /\ attempt'  = CallsHave(0)
  /\ joinedTo' = CallsHave(None)
  /\ result'   = CallsHave("none")
  /\ pendingDebounces' = ClustersHave(None)
  /\ locks'            = ClustersHave(None)
  /\ cooling'          = ClustersHave(FALSE)
  /\ lastTopologyHash' = ClustersHave(None)
  /\ openSyncs' = 0
  /\ watcher' = "off"
  /\ polls'   = {}
  /\ todo'    = [p \in Poll |-> {}]
  /\ fetched' = CallsHave(None)
  /\ lastTopologyHashes' = ClustersHave(None)
  /\ recovering' = ClustersHave(FALSE)
  /\ UNCHANGED <<enabled, synced, topology>>

-------------------------------------------------------------------------------
(* Fairness.  The event loop runs what is due, and the interval fires      *)
(* again and again.  A timer that is armed again and again fires some time *)
(* (polls are 30 s apart, the debounce is 1 s); Orchestrator and ProxySQL, *)
(* asked again and again, succeed some time.                               *)

KeepWatcher == UNCHANGED <<topology, watcherVars, events>>

CoordinatorStep(k) ==
  /\ Settling => phase[k] = "settled"
  /\ SyncStep(k)
  /\ KeepWatcher

CooldownEnds(c) ==
  /\ ~Settling
  /\ CooldownElapses(c)
  /\ KeepWatcher

PollStep(p) ==
  \/ \E c \in Cluster : Fetch(p, c) \/ FetchFails(p, c)
  \/ PollUnchanged(p)
  \/ PollSyncs(p)
  \/ PollResumes(p)
  \/ PollEnds(p)

WebhookStep(k) == WebhookSyncs(k) \/ WebhookReplies(k)

WatcherNext ==
  \/ \E p \in Poll : StartWatcher(p) \/ IntervalFires(p) \/ PollStep(p)
  \/ \E k \in Call \ Poll : (\E c \in Cluster : WebhookFetches(k, c)) \/ WebhookStep(k)
  \/ \E k \in Call : CoordinatorStep(k) \/ Abandoned(k)
  \/ \E c \in Cluster : CooldownEnds(c) \/ RecoveryEnds(c) \/ LagChanges(c)
  \/ \E c \in Cluster, t \in Topo : TopologyChanges(c, t)
  \/ Restart

Serves(k) ==
  CoordinatorStep(k) \/ Abandoned(k) \/ WebhookStep(k) \/ (k \in Poll /\ PollStep(k))
TimerFires(k, c) ==
  /\ ~Settling /\ Fires(k) /\ args[k].cluster = c
  /\ ExecuteDisabled(k) \/ ExecuteSkipped(k) \/ ExecuteStarts(k)
  /\ KeepWatcher
ProxySQLSyncs(k, c) ==
  /\ ~Settling /\ phase[k] = "running" /\ args[k].cluster = c
  /\ AttemptSucceeds(k)
  /\ KeepWatcher

Fairness ==
  /\ \A k \in Call : WF_allVars(Serves(k))
  /\ WF_allVars(\E p \in Poll : StartWatcher(p) \/ IntervalFires(p))
  /\ \A c \in Cluster :
       /\ WF_allVars(CooldownEnds(c))
       /\ SF_allVars(\E p \in Poll : Fetch(p, c))
       /\ SF_allVars(\E k \in Call : TimerFires(k, c))
       /\ SF_allVars(\E k \in Call : ProxySQLSyncs(k, c))

WatcherSpec == WatcherInit /\ [][WatcherNext]_allVars /\ Fairness

-------------------------------------------------------------------------------
(* Types of the watcher's state; a poll works on one cluster at a time.    *)
WatcherTypeOK ==
  /\ TypeOK
  /\ topology \in [Cluster -> Topo]
  /\ watcher \in {"off", "starting", "watching", "stuck"}
  /\ polls \subseteq Poll
  /\ todo \in [Poll -> SUBSET Cluster]
  /\ fetched \in [Call -> Fetched \cup {None}]
  /\ lastTopologyHashes \in [Cluster -> Topo \cup {None}]
  /\ recovering \in [Cluster -> BOOLEAN]
  /\ events \in 0..MaxEvents

(* The coordinator keeps its promise inside the server, where polls and    *)
(* webhooks call it, frames that await it are lost and the process crashes *)
(* in the middle of a sync: writes to a cluster never overlap, and what is *)
(* recorded as synced is what a completed write has left.                  *)
ServerImplementsSerialSync == Serial!ServerSpec

NoWebhooks == \A k \in Call \ Poll : fetched[k] = None
PollsAreAnsweredWell ==
  \A p \in Poll :
    /\ phase[p] # "joined"
    /\ phase[p] = "answered" => result[p] \in {"ok", "no_change"}

(* The fallback works as long as syncs do: when every webhook is missed    *)
(* and every poll whose sync is answered is told that its own topology is  *)
(* in ProxySQL, then a topology that stays is synced and stays so, however *)
(* polls overlap, whatever out-of-date answers they work on and wherever   *)
(* the server crashed (docs/failover.md:984, "This catches any missed      *)
(* webhook events").                                                       *)
PollsConverge ==
  \A c \in Cluster, t \in Topo :
    /\ [](enabled /\ NoWebhooks /\ PollsAreAnsweredWell)
    /\ <>[](topology[c] = t)
    => <>[](synced[c] = t)

(* Without webhooks start() always comes to install the interval, whatever *)
(* Orchestrator and ProxySQL answer to the first poll.                     *)
StartCompletes == [](enabled /\ NoWebhooks) => <>[](watcher = "watching")

(* Documented, and not so.  docs/failover.md:984 "A background topology    *)
(* watcher polls Orchestrator every 30 seconds and syncs ProxySQL if       *)
(* topology changes are detected. This catches any missed webhook events   *)
(* and handles network issues."                                            *)
MissedWebhooksAreCaught ==
  \A c \in Cluster, t \in Topo :
    /\ [](enabled /\ NoWebhooks)
    /\ <>[](topology[c] = t)
    => <>(synced[c] = t)

(* topology-watcher.ts:55 "Schedule periodic polls".                       *)
PollsAreScheduled == []enabled => <>[](watcher = "watching")
===============================================================================
